---- MODULE Spec2Model ----
(***************************************************************************)
(* Model of the document field-extraction pipeline of                      *)
(* backend_api/core_extractor.py: the normalizers, the rule-based          *)
(* correctors, the cross-document validators, the consolidator and         *)
(* run_pipeline.                                                           *)
(*                                                                         *)
(* Python values are tagged records: None, Str(s), PyInt(ds), Dict(f), List(q), NaN.   *)
(* A Python str is a sequence of one-character strings; a fixed phrase of  *)
(* the source (a field label, a month name, a literal the code writes) is   *)
(* one indivisible element of such a sequence, with its length in          *)
(* characters given by CharLen.                                            *)
(***************************************************************************)
EXTENDS Integers, Sequences, FiniteSets, TLC

VARIABLES pc, items, buckets, rut_data, cc_data, doc16_data, logs, metricas,
          df_master, ret, loc, call,
          casos_creados, uploads_json, result_json, output_xlsx, en_curso,
          corridas, completados, respuesta

\* The state of run_pipeline and of the calls made one at a time
pipelineVars == <<pc, items, buckets, rut_data, cc_data, doc16_data, logs, metricas,
                  df_master, ret, loc, call>>

\* The stored objects of the cases and the requests of the API
apiVars == <<casos_creados, uploads_json, result_json, output_xlsx, en_curso,
             corridas, completados, respuesta>>

vars == <<pc, items, buckets, rut_data, cc_data, doc16_data, logs, metricas,
          df_master, ret, loc, call,
          casos_creados, uploads_json, result_json, output_xlsx, en_curso,
          corridas, completados, respuesta>>

(***************************************************************************)
(* Python values                                                           *)
(***************************************************************************)
None == [t |-> "none"]

NaN == [t |-> "nan"]

Str(s) == [t |-> "str", v |-> s]

\* A JSON integer, held as its decimal digits (what str() gives).
PyInt(ds) == [t |-> "int", v |-> ds]

Dict(f) == [t |-> "dict", v |-> f]

List(q) == [t |-> "list", v |-> q]

\* A JSON true or false.
PyBool(b) == [t |-> "bool", v |-> b]

EmptyDict == Dict([k \in {} |-> None])

\* Python truthiness (bool(x)): None, "", 0, {} and [] are falsy.
Truthy(x) ==
    CASE x.t = "none" -> FALSE
      [] x.t = "str" -> x.v # <<>>
      [] x.t = "int" -> x.v # <<"0">>
      [] x.t = "dict" -> DOMAIN x.v # {}
      [] x.t = "list" -> x.v # <<>>
      [] x.t = "bool" -> x.v
      [] OTHER -> TRUE

\* dict.get(k): the value, or None when the key is absent.
Get(d, k) == IF k \in DOMAIN d.v THEN d.v[k] ELSE None

\* d[k] = x on a dict.
Put(d, k, x) == Dict([j \in DOMAIN d.v \cup {k} |-> IF j = k THEN x ELSE d.v[j]])

\* dict.setdefault(k, x)
SetDefault(d, k, x) == IF k \in DOMAIN d.v THEN d ELSE Put(d, k, x)

(***************************************************************************)
(* Characters                                                              *)
(***************************************************************************)
AsciiDigit == {"0", "1", "2", "3", "4", "5", "6", "7", "8", "9"}

\* One decimal digit outside ASCII (ARABIC-INDIC DIGIT THREE): \d and \D of
\* Python's re classify it as a digit, [0-9] does not.
ArabicThree == "U+0663"

UniDigit == AsciiDigit \cup {ArabicThree}

Space == {" ", "\n", "\t"}

UpperLetter == {"A", "B", "C", "D", "E", "F", "G", "H", "I", "J", "K", "L", "M",
                "N", "O", "P", "Q", "R", "S", "T", "U", "V", "W", "X", "Y", "Z"}

LowerLetter == {"a", "b", "c", "d", "e", "f", "g", "h", "i", "j", "k", "l", "m",
                "n", "o", "p", "q", "r", "s", "t", "u", "v", "w", "x", "y", "z"}

\* Fixed phrases of the source, each one element of a text.
LabelNI == "Número de Identificación"

LabelNIUpper == "NÚMERO DE IDENTIFICACIÓN"

LabelNILower == "número de identificación"

LabelCC == "Cédula de Ciudadanía"

LabelCCUpper == "CÉDULA DE CIUDADANÍA"

\* A block of running text without digits, labels or line breaks.
Prosa == "<prosa>"

ProsaLen == 120

Punct == {"-", "/", ".", ":", ",", "°", "_"}

AccentUpper == {"Á", "É", "Í", "Ó", "Ú", "Ñ"}

AccentLower == {"á", "é", "í", "ó", "ú", "ñ"}

UpperOf ==
    [c \in LowerLetter |->
        CASE c = "a" -> "A" [] c = "b" -> "B" [] c = "c" -> "C" [] c = "d" -> "D"
          [] c = "e" -> "E" [] c = "f" -> "F" [] c = "g" -> "G" [] c = "h" -> "H"
          [] c = "i" -> "I" [] c = "j" -> "J" [] c = "k" -> "K" [] c = "l" -> "L"
          [] c = "m" -> "M" [] c = "n" -> "N" [] c = "o" -> "O" [] c = "p" -> "P"
          [] c = "q" -> "Q" [] c = "r" -> "R" [] c = "s" -> "S" [] c = "t" -> "T"
          [] c = "u" -> "U" [] c = "v" -> "V" [] c = "w" -> "W" [] c = "x" -> "X"
          [] c = "y" -> "Y" [] OTHER -> "Z"]

AccentUpperOf ==
    [c \in AccentLower |->
        CASE c = "á" -> "Á" [] c = "é" -> "É" [] c = "í" -> "Í" [] c = "ó" -> "Ó"
          [] c = "ú" -> "Ú" [] OTHER -> "Ñ"]

\* str.upper() of one element.
UpperChar(c) ==
    CASE c \in LowerLetter -> UpperOf[c]
      [] c \in AccentLower -> AccentUpperOf[c]
      [] c \in {LabelNI, LabelNILower} -> LabelNIUpper
      [] c = LabelCC -> LabelCCUpper
      [] OTHER -> c

\* str.upper()
Upper(s) == [i \in 1..Len(s) |-> UpperChar(s[i])]

\* str.lower() of one element.
LowerChar(c) ==
    CASE c \in UpperLetter -> CHOOSE l \in LowerLetter : UpperOf[l] = c
      [] c \in AccentUpper -> CHOOSE l \in AccentLower : AccentUpperOf[l] = c
      [] c \in {LabelNI, LabelNIUpper} -> LabelNILower
      [] OTHER -> c

\* str.lower()
Lower(s) == [i \in 1..Len(s) |-> LowerChar(s[i])]

\* Number of characters of one element.
CharLenOf(c) ==
    CASE c \in {LabelNI, LabelNIUpper, LabelNILower} -> 24
      [] c \in {LabelCC, LabelCCUpper} -> 20
      [] c = Prosa -> ProsaLen
      [] OTHER -> 1

RECURSIVE CharLen(_)
\* len(s) in characters.
CharLen(s) == IF s = <<>> THEN 0 ELSE CharLenOf(Head(s)) + CharLen(Tail(s))

RECURSIVE Filter(_, _)
\* The elements of s that are in cs, in order.
Filter(s, cs) ==
    IF s = <<>> THEN <<>>
    ELSE (IF Head(s) \in cs THEN <<Head(s)>> ELSE <<>>) \o Filter(Tail(s), cs)

RECURSIVE LStrip(_)
LStrip(s) == IF s # <<>> /\ Head(s) \in Space THEN LStrip(Tail(s)) ELSE s

RECURSIVE RStrip(_)
RStrip(s) ==
    IF s # <<>> /\ s[Len(s)] \in Space THEN RStrip(SubSeq(s, 1, Len(s) - 1)) ELSE s

\* str.strip()
Strip(s) == RStrip(LStrip(s))

\* str(x) of a value the pipeline may hold in a field.
PyStr(x) ==
    CASE x.t = "str" -> x.v
      [] x.t = "int" -> x.v
      [] x.t = "bool" -> IF x.v THEN <<"T", "r", "u", "e">> ELSE <<"F", "a", "l", "s", "e">>
      [] OTHER -> <<>>

(***************************************************************************)
(* Regular expressions (re.search, re.fullmatch, re.sub of a class).       *)
(* A pattern is a sequence of elements; matching is leftmost, greedy and   *)
(* backtracking, as in Python's re.                                        *)
(***************************************************************************)
Unbounded == 1000000

\* A greedy repetition {lo,hi} of one character class.
Cls(cs, lo, hi) == [k |-> "cls", cs |-> cs, lo |-> lo, hi |-> hi]

Lit(c) == Cls({c}, 1, 1)

\* Start and end of capture group g.
Open(g) == [k |-> "open", g |-> g]

Close(g) == [k |-> "close", g |-> g]

\* (?:r)? , greedy
Opt(r) == [k |-> "opt", r |-> r]

\* \b
WordB == [k |-> "wb"]

\* $ at the end of the string (re.fullmatch)
AtEnd == [k |-> "end"]

NoCaps == <<<<0, 0>>, <<0, 0>>, <<0, 0>>>>

NoMatch == [end |-> 0, caps |-> NoCaps]

RECURSIVE RunLen(_, _, _, _)
\* How many consecutive elements of s from position i are in cs, at most hi.
RunLen(s, i, cs, hi) ==
    IF hi = 0 \/ i > Len(s) \/ s[i] \notin cs THEN 0
    ELSE 1 + RunLen(s, i + 1, cs, hi - 1)

\* \w: letters, digits and the underscore; a label begins and ends with a
\* letter, a block of prose with punctuation.
WordChar == UniDigit \cup UpperLetter \cup LowerLetter \cup AccentUpper \cup AccentLower
            \cup {"_", LabelNI, LabelNIUpper, LabelNILower, LabelCC, LabelCCUpper}

IsWord(s, i) == i >= 1 /\ i <= Len(s) /\ s[i] \in WordChar

\* A configuration of the matcher: the rest of the pattern, the position in
\* the text and the groups so far.
Cfg(r, i, caps) == [r |-> r, i |-> i, caps |-> caps]

\* The first element of c.r matched at c.i: whether it can match, the
\* configuration after its preferred match and the alternative left behind
\* (a greedy repetition may give back one element, an optional part may be
\* skipped).
Avanza(c, s) ==
    LET e == Head(c.r)
        rest == Tail(c.r)
        n == RunLen(s, c.i, e.cs, e.hi)
    IN CASE e.k = "cls" ->
              IF n < e.lo THEN [ok |-> FALSE]
              ELSE [ok |-> TRUE, cfg |-> Cfg(rest, c.i + n, c.caps),
                    alts |-> IF n > e.lo
                             THEN <<Cfg(<<Cls(e.cs, e.lo, n - 1)>> \o rest, c.i, c.caps)>>
                             ELSE <<>>]
         [] e.k = "open" ->
              [ok |-> TRUE, cfg |-> Cfg(rest, c.i, [c.caps EXCEPT ![e.g] = <<c.i, c.i>>]),
               alts |-> <<>>]
         [] e.k = "close" ->
              [ok |-> TRUE,
               cfg |-> Cfg(rest, c.i, [c.caps EXCEPT ![e.g] = <<c.caps[e.g][1], c.i>>]),
               alts |-> <<>>]
         [] e.k = "opt" ->
              [ok |-> TRUE, cfg |-> Cfg(e.r \o rest, c.i, c.caps),
               alts |-> <<Cfg(rest, c.i, c.caps)>>]
         [] e.k = "wb" ->
              IF IsWord(s, c.i - 1) # IsWord(s, c.i)
              THEN [ok |-> TRUE, cfg |-> Cfg(rest, c.i, c.caps), alts |-> <<>>]
              ELSE [ok |-> FALSE]
         [] OTHER -> \* "end"
              IF c.i = Len(s) + 1
              THEN [ok |-> TRUE, cfg |-> Cfg(rest, c.i, c.caps), alts |-> <<>>]
              ELSE [ok |-> FALSE]

RECURSIVE Backtrack(_, _, _)
\* After the step a: go on from the configuration it gives, or, when the
\* element cannot match, take up the alternative left behind last.
Sigue(a, alts, s) ==
    IF a.ok THEN Backtrack(a.cfg, alts \o a.alts, s)
    ELSE IF alts = <<>> THEN NoMatch
    ELSE Backtrack(alts[Len(alts)], SubSeq(alts, 1, Len(alts) - 1), s)

\* The first match in Python's backtracking order.
Backtrack(c, alts, s) ==
    IF c.r = <<>> THEN [end |-> c.i, caps |-> c.caps] ELSE Sigue(Avanza(c, s), alts, s)

\* Match pattern r against s from position i, as [end, caps], or NoMatch.
MatchAt(r, s, i, caps) == Backtrack(Cfg(r, i, caps), <<>>, s)

RECURSIVE SearchFrom(_, _, _)
\* The match a at position i if there is one, else the search goes on.
SearchDesde(a, r, s, i) == IF a.end # 0 THEN a ELSE SearchFrom(r, s, i + 1)

SearchFrom(r, s, i) ==
    IF i > Len(s) + 1 THEN NoMatch ELSE SearchDesde(MatchAt(r, s, i, NoCaps), r, s, i)

\* re.search(r, s)
Search(r, s) == SearchFrom(r, s, 1)

\* re.fullmatch(r, s) is not None
FullMatch(r, s) == MatchAt(r \o <<AtEnd>>, s, 1, NoCaps).end # 0

Matched(m) == m.end # 0

\* m.group(g), read from the text s
Group(s, m, g) == SubSeq(s, m.caps[g][1], m.caps[g][2] - 1)

\* Every element that may occur in a text.
Sigma == UniDigit \cup Space \cup UpperLetter \cup LowerLetter \cup Punct
         \cup AccentUpper \cup AccentLower
         \cup {LabelNI, LabelNIUpper, LabelNILower, LabelCC, LabelCCUpper, Prosa}

\* re.sub(r"\D", "", s): \d is every decimal digit, not only 0-9.
SubNoDigits(s) == Filter(s, UniDigit)

(***************************************************************************)
(* Utilidades generales                                                    *)
(***************************************************************************)
only_digits(x) ==
    IF x.t = "none" THEN None
    ELSE LET d == SubNoDigits(PyStr(x))
         IN IF d # <<>> THEN Str(d) ELSE None

normalize_text(x) ==
    IF x.t = "none" THEN None
    ELSE LET s == Strip(PyStr(x))
         IN IF s # <<>> THEN Str(s) ELSE None

(***************************************************************************)
(* Decimal numbers in text                                                 *)
(***************************************************************************)
DigitVal(c) ==
    CASE c = "0" -> 0 [] c = "1" -> 1 [] c = "2" -> 2 [] c = "3" -> 3
      [] c = "4" -> 4 [] c = "5" -> 5 [] c = "6" -> 6 [] c = "7" -> 7
      [] c = "8" -> 8 [] c = "9" -> 9 [] OTHER -> 3 \* ArabicThree

DigitChar(n) ==
    CASE n = 0 -> "0" [] n = 1 -> "1" [] n = 2 -> "2" [] n = 3 -> "3"
      [] n = 4 -> "4" [] n = 5 -> "5" [] n = 6 -> "6" [] n = 7 -> "7"
      [] n = 8 -> "8" [] OTHER -> "9"

RECURSIVE IntOf(_)
\* int(ds) of a non-empty string of decimal digits
IntOf(ds) ==
    IF ds = <<>> THEN 0
    ELSE 10 * IntOf(SubSeq(ds, 1, Len(ds) - 1)) + DigitVal(ds[Len(ds)])

RECURSIVE DigitsOf(_)
\* str(n) of a natural number
DigitsOf(n) ==
    IF n < 10 THEN <<DigitChar(n)>>
    ELSE DigitsOf(n \div 10) \o <<DigitChar(n % 10)>>

RECURSIVE ZeroPad(_, _)
ZeroPad(ds, w) == IF Len(ds) >= w THEN ds ELSE ZeroPad(<<"0">> \o ds, w)

\* f"{n:0wd}"
Fmt(n, w) == ZeroPad(DigitsOf(n), w)

\* f"{yyyy:04d}-{mm:02d}-{dd:02d}"
FmtISO(yyyy, mm, dd) == Fmt(yyyy, 4) \o <<"-">> \o Fmt(mm, 2) \o <<"-">> \o Fmt(dd, 2)

(***************************************************************************)
(* Normalización de fechas                                                 *)
(***************************************************************************)
\* r"\d{4}-\d{2}-\d{2}"
ReISO == <<Cls(UniDigit, 4, 4), Lit("-"), Cls(UniDigit, 2, 2), Lit("-"),
           Cls(UniDigit, 2, 2)>>

\* r"(\d{1,2})[-/ ]([A-Z]{3})[-/ ](\d{4})"
ReDiaMesAbrAnio ==
    <<Open(1), Cls(UniDigit, 1, 2), Close(1), Cls({"-", "/", " "}, 1, 1),
      Open(2), Cls(UpperLetter, 3, 3), Close(2), Cls({"-", "/", " "}, 1, 1),
      Open(3), Cls(UniDigit, 4, 4), Close(3)>>

\* r"(\d{1,2})[-/](\d{1,2})[-/](\d{4})"
ReDiaMesAnio ==
    <<Open(1), Cls(UniDigit, 1, 2), Close(1), Cls({"-", "/"}, 1, 1),
      Open(2), Cls(UniDigit, 1, 2), Close(2), Cls({"-", "/"}, 1, 1),
      Open(3), Cls(UniDigit, 4, 4), Close(3)>>

\* The table months of normalize_date; 0 when mon is not a key.
months_abr(mon) ==
    CASE mon = <<"J", "A", "N">> -> 1 [] mon = <<"F", "E", "B">> -> 2
      [] mon = <<"M", "A", "R">> -> 3 [] mon = <<"A", "P", "R">> -> 4
      [] mon = <<"M", "A", "Y">> -> 5 [] mon = <<"J", "U", "N">> -> 6
      [] mon = <<"J", "U", "L">> -> 7 [] mon = <<"A", "U", "G">> -> 8
      [] mon = <<"S", "E", "P">> -> 9 [] mon = <<"O", "C", "T">> -> 10
      [] mon = <<"N", "O", "V">> -> 11 [] mon = <<"D", "E", "C">> -> 12
      [] OTHER -> 0

\* Lines 79-106 on the text s, stripped and in upper case: m1 and m2 are the
\* matches of the two patterns.
normalize_date_matches(s, m1, m2) ==
    IF FullMatch(ReISO, s) THEN Str(s)
    ELSE IF Matched(m1) /\ months_abr(Group(s, m1, 2)) # 0
    THEN Str(FmtISO(IntOf(Group(s, m1, 3)), months_abr(Group(s, m1, 2)),
                    IntOf(Group(s, m1, 1))))
    ELSE IF Matched(m2)
    THEN Str(FmtISO(IntOf(Group(s, m2, 3)), IntOf(Group(s, m2, 2)), IntOf(Group(s, m2, 1))))
    ELSE Str(s)

normalize_date_upper(s) ==
    normalize_date_matches(s, Search(ReDiaMesAbrAnio, s), Search(ReDiaMesAnio, s))

normalize_date(x) == IF ~Truthy(x) THEN None ELSE normalize_date_upper(Upper(Strip(PyStr(x))))

\* r"(\d{1,2})[/-](\d{1,2})[/-](\d{2,4})"
ReDiaMesAnioEs ==
    <<Open(1), Cls(UniDigit, 1, 2), Close(1), Cls({"-", "/"}, 1, 1),
      Open(2), Cls(UniDigit, 1, 2), Close(2), Cls({"-", "/"}, 1, 1),
      Open(3), Cls(UniDigit, 2, 4), Close(3)>>

\* r"(\d{1,2})\s*(?:DE\s*)?([A-ZÁÉÍÓÚÑ]+)\s*(?:DE\s*)?(\d{4})"
ReDiaDeMesDeAnio ==
    <<Open(1), Cls(UniDigit, 1, 2), Close(1), Cls(Space, 0, Unbounded),
      Opt(<<Lit("D"), Lit("E"), Cls(Space, 0, Unbounded)>>),
      Open(2), Cls(UpperLetter \cup AccentUpper, 1, Unbounded), Close(2),
      Cls(Space, 0, Unbounded),
      Opt(<<Lit("D"), Lit("E"), Cls(Space, 0, Unbounded)>>),
      Open(3), Cls(UniDigit, 4, 4), Close(3)>>

\* The table months of normalize_date_es; 0 when mon is not a key.
months_es(mon) ==
    CASE mon = <<"E", "N", "E", "R", "O">> -> 1
      [] mon = <<"F", "E", "B", "R", "E", "R", "O">> -> 2
      [] mon = <<"M", "A", "R", "Z", "O">> -> 3
      [] mon = <<"A", "B", "R", "I", "L">> -> 4
      [] mon = <<"M", "A", "Y", "O">> -> 5
      [] mon = <<"J", "U", "N", "I", "O">> -> 6
      [] mon = <<"J", "U", "L", "I", "O">> -> 7
      [] mon = <<"A", "G", "O", "S", "T", "O">> -> 8
      [] mon = <<"S", "E", "P", "T", "I", "E", "M", "B", "R", "E">> -> 9
      [] mon = <<"S", "E", "T", "I", "E", "M", "B", "R", "E">> -> 9
      [] mon = <<"O", "C", "T", "U", "B", "R", "E">> -> 10
      [] mon = <<"N", "O", "V", "I", "E", "M", "B", "R", "E">> -> 11
      [] mon = <<"D", "I", "C", "I", "E", "M", "B", "R", "E">> -> 12
      [] OTHER -> 0

\* if yyyy < 100: yyyy += 2000
Siglo == 2000

\* yyyy as lines 448-450 read it
AnioDe(y1) == IF y1 < 100 THEN y1 + Siglo ELSE y1

\* As normalize_date_es_matches without lines 440-442, the test for ISO text.
normalize_date_es_matches_sin_iso(s, s_norm, m1, m2) ==
    IF Matched(m1)
    THEN Str(FmtISO(AnioDe(IntOf(Group(s_norm, m1, 3))), IntOf(Group(s_norm, m1, 2)),
                    IntOf(Group(s_norm, m1, 1))))
    ELSE IF Matched(m2) /\ months_es(Group(s_norm, m2, 2)) # 0
    THEN Str(FmtISO(IntOf(Group(s_norm, m2, 3)), months_es(Group(s_norm, m2, 2)),
                    IntOf(Group(s_norm, m2, 1))))
    ELSE Str(s)

\* Lines 440-463 on the stripped text s and its upper case s_norm: m1 and m2
\* are the matches of the two patterns.
normalize_date_es_matches(s, s_norm, m1, m2) ==
    IF FullMatch(ReISO, s_norm) THEN Str(s_norm)
    ELSE IF Matched(m1)
    THEN Str(FmtISO(AnioDe(IntOf(Group(s_norm, m1, 3))), IntOf(Group(s_norm, m1, 2)),
                    IntOf(Group(s_norm, m1, 1))))
    ELSE IF Matched(m2) /\ months_es(Group(s_norm, m2, 2)) # 0
    THEN Str(FmtISO(IntOf(Group(s_norm, m2, 3)), months_es(Group(s_norm, m2, 2)),
                    IntOf(Group(s_norm, m2, 1))))
    ELSE Str(s)

normalize_date_es_upper(s, s_norm) ==
    normalize_date_es_matches(s, s_norm, Search(ReDiaMesAnioEs, s_norm),
                              Search(ReDiaDeMesDeAnio, s_norm))

normalize_date_es_strip(s) == normalize_date_es_upper(s, Upper(s))

normalize_date_es(x) == IF ~Truthy(x) THEN None ELSE normalize_date_es_strip(Strip(PyStr(x)))

(***************************************************************************)
(* Exceptions: a function that raises returns Raise(e) instead of a value. *)
(***************************************************************************)
Raise(e) == [t |-> "raise", e |-> e]

Raised(x) == x.t = "raise"

(***************************************************************************)
(* Limpieza de texto                                                       *)
(***************************************************************************)
RECURSIVE CompactRuns(_, _, _, _)
\* re.sub of every run of at least lo elements of cs by the string rep.
CompactRuns(s, cs, lo, rep) ==
    IF s = <<>> THEN <<>>
    ELSE LET n == RunLen(s, 1, cs, Unbounded)
             k == IF n > 0 THEN n ELSE 1
         IN (IF n >= lo THEN rep ELSE SubSeq(s, 1, k))
            \o CompactRuns(SubSeq(s, k + 1, Len(s)), cs, lo, rep)

\* Over the elements of Sigma the Unicode normalisation and the removal of
\* control characters change nothing; what remains is the compaction of
\* blanks and of line breaks, and the strip.
limpiar_texto_para_llm(text) ==
    Strip(CompactRuns(CompactRuns(text, {" ", "\t"}, 1, <<" ">>), {"\n"}, 3,
                      <<"\n", "\n">>))

\* " ".join(texto.split())
JoinSplit(texto) == Strip(CompactRuns(texto, Space, 1, <<" ">>))

(***************************************************************************)
(* Mejora RUT: numero_identificacion                                       *)
(***************************************************************************)
IdMin == 8

IdMax == 10

ReglaMin == 6

ReglaMax == 11

ReglaSpan == 20

\* candidatos.sort(key=len, reverse=True); candidatos[0]: the first of the
\* longest candidates.
PrimeroMasLargo(cands) ==
    LET mx == CHOOSE n \in {Len(cands[i]) : i \in 1..Len(cands)} :
                  \A j \in 1..Len(cands) : Len(cands[j]) <= n
        i0 == CHOOSE i \in 1..Len(cands) :
                  /\ Len(cands[i]) = mx
                  /\ \A j \in 1..(i - 1) : Len(cands[j]) # mx
    IN cands[i0]

RECURSIVE CandidatosOCR_regla(_)
\* As CandidatosOCR, with the lengths of the rule (6 to 11) for those of the
\* identity number.
CandidatosOCR_regla(results) ==
    IF results = <<>> THEN <<>>
    ELSE (IF ReglaMin <= Len(SubNoDigits(Head(results)))
             /\ Len(SubNoDigits(Head(results))) <= ReglaMax
          THEN <<SubNoDigits(Head(results))>> ELSE <<>>)
         \o CandidatosOCR_regla(Tail(results))

RECURSIVE CandidatosOCR(_)
\* The digit strings of 8 to 10 digits among the lines read in the crop.
CandidatosOCR(results) ==
    IF results = <<>> THEN <<>>
    ELSE LET dig == SubNoDigits(Head(results))
         IN (IF IdMin <= Len(dig) /\ Len(dig) <= IdMax THEN <<dig>> ELSE <<>>)
            \o CandidatosOCR(Tail(results))

RECURSIVE OcrPaginas(_)
\* The loop over the pages: a page is [ancla, lecturas], ancla telling whether
\* the label was found on it and lecturas the lines OCR reads in the crop.
OcrPaginas(paginas) ==
    IF paginas = <<>> THEN None
    ELSE LET pg == Head(paginas)
             candidatos == CandidatosOCR(pg.lecturas)
         IN IF pg.ancla /\ candidatos # <<>> THEN Str(PrimeroMasLargo(candidatos))
            ELSE OcrPaginas(Tail(paginas))

\* pdf is [valido, texto, paginas, lector]: whether fitz opens it, its embedded
\* text, its pages, and whether the OCR reader can be built.
ocr_numero_identificacion_desde_campo26(pdf) ==
    IF ~pdf.valido THEN Raise("FileDataError")
    ELSE IF ~pdf.lector THEN Raise("RuntimeError")
    ELSE OcrPaginas(pdf.paginas)

numero_id_es_sospechoso(num) ==
    IF ~Truthy(num) THEN TRUE
    ELSE LET d == SubNoDigits(PyStr(num))
         IN ~(IdMin <= Len(d) /\ Len(d) <= IdMax)

\* r"26\.\s*Número de Identificación\s*([0-9\s]{6,20})", re.IGNORECASE
ReCampo26Regla ==
    <<Lit("2"), Lit("6"), Lit("."), Cls(Space, 0, Unbounded), Lit(LabelNIUpper),
      Cls(Space, 0, Unbounded),
      Open(1), Cls(AsciiDigit \cup Space, ReglaMin, ReglaSpan), Close(1)>>

\* r"Cédula de Ciudadanía\s*([0-9\s]{6,20})", re.IGNORECASE
ReCedulaRegla ==
    <<Lit(LabelCCUpper), Cls(Space, 0, Unbounded),
      Open(1), Cls(AsciiDigit \cup Space, ReglaMin, ReglaSpan), Close(1)>>

\* if 6 <= len(cand) <= 11: return cand
ReglaLargo(cand) == IF ReglaMin <= Len(cand) /\ Len(cand) <= ReglaMax THEN Str(cand) ELSE None

\* if m: cand = re.sub(r"\D", "", m.group(1)) ...
ReglaDeMatch(t, m) == IF Matched(m) THEN ReglaLargo(SubNoDigits(Group(t, m, 1))) ELSE None

\* The candidate of the pattern r in the text t, case ignored
ReglaDe(t, r) == ReglaDeMatch(t, Search(r, Upper(t)))

\* The second candidate is looked for when the first pattern gives none.
PrimeraRegla(c1, t) == IF c1 # None THEN c1 ELSE ReglaDe(t, ReCedulaRegla)

extraer_numero_identificacion_regla_t(t) == PrimeraRegla(ReglaDe(t, ReCampo26Regla), t)

extraer_numero_identificacion_regla(texto) ==
    extraer_numero_identificacion_regla_t(JoinSplit(texto))

\* data is a dict here; a model answer that is not a JSON object is handled
\* in normalizar_campos_rut.
CorregirCon(data, regla) ==
    IF Truthy(regla) THEN Put(data, "numero_identificacion", regla) ELSE data

corregir_numero_identificacion(data, texto_pdf) ==
    CorregirCon(data, extraer_numero_identificacion_regla(texto_pdf))

\* r"26\.\s*Número de Identificación\s*[\n: ]+\s*(\d{8,10})"
ReCampo26 ==
    <<Lit("2"), Lit("6"), Lit("."), Cls(Space, 0, Unbounded), Lit(LabelNI),
      Cls(Space, 0, Unbounded), Cls({"\n", ":", " "}, 1, Unbounded),
      Cls(Space, 0, Unbounded),
      Open(1), Cls(UniDigit, IdMin, IdMax), Close(1)>>

\* return m.group(1) if m else None
Grupo1(texto, match) == IF Matched(match) THEN Str(Group(texto, match, 1)) ELSE None

\* c is the candidate without its non-digits
ValidarDigitos(texto, c) ==
    IF ~(IdMin <= Len(c) /\ Len(c) <= IdMax) THEN None
    ELSE Grupo1(texto, Search(ReCampo26, texto))

validar_numero_identificacion(texto, candidato) ==
    IF ~Truthy(candidato) THEN None
    ELSE IF candidato.t # "str" THEN Raise("TypeError")
    ELSE ValidarDigitos(texto, SubNoDigits(candidato.v))

RECURSIVE NormalizarTextos(_, _)
\* for k in ks: data[k] = normalize_text(data.get(k))
NormalizarTextos(data, ks) ==
    IF ks = <<>> THEN data
    ELSE NormalizarTextos(Put(data, Head(ks), normalize_text(Get(data, Head(ks)))),
                          Tail(ks))

\* data[k] = only_digits(data.get(k))
PutOnlyDigits(data, k) == Put(data, k, only_digits(Get(data, k)))

\* data[k] = normalize_date(data.get(k))
PutNormalizeDate(data, k) == Put(data, k, normalize_date(Get(data, k)))

\* As RutConNumero, keeping the number of the record when the validation
\* gives none.
RutConNumero_sin_validar(d1, num) ==
    IF Raised(num) THEN num
    ELSE NormalizarTextos(IF num = None THEN d1 ELSE Put(d1, "numero_identificacion", num),
             <<"primer_apellido", "segundo_apellido", "primer_nombre", "otros_nombres",
               "tipo_documento">>)

\* Lines 312-325: num is the validated number
RutConNumero(d1, num) ==
    IF Raised(num) THEN num
    ELSE NormalizarTextos(Put(d1, "numero_identificacion", num),
             <<"primer_apellido", "segundo_apellido", "primer_nombre", "otros_nombres",
               "tipo_documento">>)

\* Lines 310-311: d1 is the record after the rule
RutCorregido(d1, rut_texto) ==
    RutConNumero(d1, validar_numero_identificacion(rut_texto,
                                                   Get(d1, "numero_identificacion")))

\* data or {}
OrEmpty(data0) == IF Truthy(data0) THEN data0 ELSE EmptyDict

normalizar_campos_rut(data0, rut_texto) ==
    IF OrEmpty(data0).t # "dict" THEN Raise("TypeError")
    ELSE RutCorregido(corregir_numero_identificacion(OrEmpty(data0), rut_texto), rut_texto)

(***************************************************************************)
(* Cédula                                                                  *)
(***************************************************************************)
norm_si_no(v0) ==
    IF v0.t = "none" THEN None
    ELSE LET v == Lower(Strip(PyStr(v0)))
         IN IF v \in {<<"s", "i">>, <<"s", "í">>, <<"s">>, <<"y", "e", "s">>,
                      <<"t", "r", "u", "e">>, <<"1">>}
            THEN Str(<<"S", "í">>)
            ELSE IF v \in {<<"n", "o">>, <<"n">>, <<"f", "a", "l", "s", "e">>, <<"0">>}
            THEN Str(<<"N", "o">>)
            ELSE None

\* data[k] = norm_si_no(data.get(k))
PutNormSiNo(data, k) == Put(data, k, norm_si_no(Get(data, k)))

normalizar_campos_cc(data0) ==
    IF OrEmpty(data0).t # "dict" THEN Raise("AttributeError")
    ELSE LET d1 == NormalizarTextos(OrEmpty(data0),
                                    <<"doc_pais_emisor", "doc_tipo_documento">>)
             d2 == PutOnlyDigits(d1, "doc_numero")
             d3 == NormalizarTextos(d2, <<"doc_apellidos", "doc_nombres">>)
             d4 == PutNormalizeDate(d3, "doc_fecha_nacimiento")
             d5 == NormalizarTextos(d4, <<"doc_lugar_nacimiento", "doc_sexo",
                                          "doc_estatura", "doc_grupo_sanguineo_rh">>)
             d6 == PutNormalizeDate(d5, "doc_fecha_expedicion")
             d7 == NormalizarTextos(d6, <<"doc_lugar_expedicion", "doc_registrador",
                                          "doc_codigo_barras">>)
             d8 == PutNormSiNo(d7, "doc_huella_indice")
         IN PutNormSiNo(d8, "doc_firma_titular")

(***************************************************************************)
(* DOC16 - Certificación bancaria                                          *)
(***************************************************************************)
RECURSIVE Lits(_)
\* The pattern matching the characters of w one after the other.
Lits(w) == IF w = <<>> THEN <<>> ELSE <<Lit(Head(w))>> \o Lits(Tail(w))

\* sub in s
Contains(sub, s) ==
    \E i \in 1..(Len(s) - Len(sub) + 1) : SubSeq(s, i, i + Len(sub) - 1) = sub

\* r"\bN\.?I\.?T\.?\s*[:\- ]*([0-9\.]{5,15}(?:\-[0-9])?)", re.IGNORECASE
ReNit ==
    <<WordB, Lit("N"), Cls({"."}, 0, 1), Lit("I"), Cls({"."}, 0, 1), Lit("T"),
      Cls({"."}, 0, 1), Cls(Space, 0, Unbounded), Cls({":", "-", " "}, 0, Unbounded),
      Open(1), Cls(AsciiDigit \cup {"."}, 5, 15),
      Opt(<<Lit("-"), Cls(AsciiDigit, 1, 1)>>), Close(1)>>

\* return m.group(1).strip() if m else None
NitDe(texto, m) == IF ~Matched(m) THEN None ELSE Str(Strip(Group(texto, m, 1)))

extraer_banco_nit_regla(texto) == NitDe(texto, Search(ReNit, Upper(texto)))

CuentaMin == 6

CuentaMax == 30

\* ([0-9\- ]{6,30}) after \s*[:\- ]*
ReCuentaNumero ==
    <<Cls(Space, 0, Unbounded), Cls({":", "-", " "}, 0, Unbounded),
      Open(1), Cls(AsciiDigit \cup {"-", " "}, CuentaMin, CuentaMax), Close(1)>>

\* r"\bN[°o]?\.?\s*CUENTA\s*[:\- ]*([0-9\- ]{6,30})"
ReNoCuenta ==
    <<WordB, Lit("N"), Cls({"°", "O"}, 0, 1), Cls({"."}, 0, 1), Cls(Space, 0, Unbounded)>>
    \o Lits(<<"C", "U", "E", "N", "T", "A">>) \o ReCuentaNumero

\* r"\bCUENTA\s*[:\- ]*([0-9\- ]{6,30})"
ReCuenta == <<WordB>> \o Lits(<<"C", "U", "E", "N", "T", "A">>) \o ReCuentaNumero

\* r"\bCUENTA\s+DE\s+INVERSI[ÓO]N\s*[:\- ]*([0-9\- ]{6,30})"
ReCuentaInversion ==
    <<WordB>> \o Lits(<<"C", "U", "E", "N", "T", "A">>) \o <<Cls(Space, 1, Unbounded)>>
    \o Lits(<<"D", "E">>) \o <<Cls(Space, 1, Unbounded)>>
    \o Lits(<<"I", "N", "V", "E", "R", "S", "I">>) \o <<Cls({"Ó", "O"}, 1, 1), Lit("N")>>
    \o ReCuentaNumero

\* if 6 <= len(cand) <= 30: return cand
CuentaLargo(cand) == IF CuentaMin <= Len(cand) /\ Len(cand) <= CuentaMax THEN Str(cand) ELSE None

\* if m: cand = re.sub(r"\D", "", m.group(1)) ...
CuentaDeMatch(texto, m) ==
    IF Matched(m) THEN CuentaLargo(SubNoDigits(Group(texto, m, 1))) ELSE None

RECURSIVE PrimeraCuenta(_, _)
\* The candidate cand of the first pattern, or else that of the others
CuentaO(cand, patterns, texto) ==
    IF cand # None THEN cand ELSE PrimeraCuenta(Tail(patterns), texto)

\* for pat in patterns: the first pattern whose match has 6 to 30 digits.
PrimeraCuenta(patterns, texto) ==
    IF patterns = <<>> THEN None
    ELSE CuentaO(CuentaDeMatch(texto, Search(Head(patterns), Upper(texto))), patterns, texto)

extraer_numero_cuenta_regla(texto) ==
    PrimeraCuenta(<<ReNoCuenta, ReCuenta, ReCuentaInversion>>, texto)

extraer_estado_cuenta_regla(texto) ==
    LET t == Upper(texto)
    IN IF Contains(<<"I", "N", "A", "C", "T">>, t)
       THEN Str(<<"I", "N", "A", "C", "T", "I", "V", "A">>)
       ELSE IF Contains(<<"A", "C", "T", "I", "V">>, t)
       THEN Str(<<"A", "C", "T", "I", "V", "A">>)
       ELSE None

\* Banco nombre: fallback simple por marcas conocidas
BancoPorMarca(texto) ==
    LET t == Upper(texto)
    IN IF Contains(<<"B", "A", "N", "C", "O", "L", "O", "M", "B", "I", "A">>, t)
       THEN Str(<<"B", "a", "n", "c", "o", "l", "o", "m", "b", "i", "a">>)
       ELSE IF Contains(<<"D", "A", "V", "I", "V", "I", "E", "N", "D", "A">>, t)
       THEN Str(<<"D", "a", "v", "i", "v", "i", "e", "n", "d", "a">>)
       ELSE IF \/ Contains(<<"S", "C", "O", "T", "I", "A", "B", "A", "N", "K">>, t)
               \/ Contains(<<"C", "O", "L", "P", "A", "T", "R", "I", "A">>, t)
       THEN Str(<<"S", "c", "o", "t", "i", "a", "b", "a", "n", "k", " ",
                  "C", "o", "l", "p", "a", "t", "r", "i", "a">>)
       ELSE None

\* As Backfill, with the value of the rule written whenever the rule finds
\* one.
Backfill_siempre(data, k, v) ==
    IF Truthy(v) THEN Put(data, k, v) ELSE data

\* if not data.get(k): v = rule; if v: data[k] = v
Backfill(data, k, v) ==
    IF ~Truthy(Get(data, k)) /\ Truthy(v) THEN Put(data, k, v) ELSE data

\* data[k] = normalize_date_es(data.get(k))
PutNormalizeDateEs(data, k) == Put(data, k, normalize_date_es(Get(data, k)))

normalizar_campos_doc16(data0, texto) ==
    IF OrEmpty(data0).t # "dict" THEN Raise("AttributeError")
    ELSE LET d1 == NormalizarTextos(OrEmpty(data0),
                     <<"doc_tipo", "banco_nombre", "producto_tipo", "producto_nombre",
                       "titular_nombre", "titular_tipo_documento", "ciudad_expedicion">>)
             d2 == PutOnlyDigits(d1, "numero_cuenta")
             d3 == PutOnlyDigits(d2, "titular_num_documento")
             d4 == PutNormalizeDateEs(d3, "fecha_apertura")
             d5 == PutNormalizeDateEs(d4, "fecha_expedicion")
             d6 == Backfill(d5, "banco_nit", extraer_banco_nit_regla(texto))
             d7 == Backfill(d6, "numero_cuenta", extraer_numero_cuenta_regla(texto))
             d8 == Backfill(d7, "estado_cuenta", extraer_estado_cuenta_regla(texto))
         IN Backfill(d8, "banco_nombre", BancoPorMarca(texto))

\* "\n".join(parts).strip() of the pages' embedded text
extract_text_pymupdf(pdf) ==
    IF ~pdf.valido THEN Raise("FileDataError") ELSE Str(Strip(pdf.texto))

TextoMinDoc16 == 120

\* Lines 585-592: text is the embedded text after cleaning
Doc16TextoU(pdf, text) ==
    IF CharLen(text) >= TextoMinDoc16 THEN Str(text)
    ELSE IF ~pdf.lector THEN Raise("RuntimeError")
    ELSE Str(limpiar_texto_para_llm(Strip(pdf.ocr)))

\* Lines 583-584: text is what extract_text_pymupdf gives
Doc16Texto(pdf, text) ==
    IF Raised(text) THEN text ELSE Doc16TextoU(pdf, limpiar_texto_para_llm(text.v))

\* pdf.ocr is the text OCR reads on the rendered pages.
extract_doc16_text(pdf) == Doc16Texto(pdf, extract_text_pymupdf(pdf))

(***************************************************************************)
(* Logging / Validaciones                                                  *)
(* A log entry is [documento, tipo, mensaje]; mensaje is the text followed *)
(* by the values formatted into it.  The timestamp is left out.            *)
(***************************************************************************)
inicializar_logs == <<>>

\* As agregar_log, with the entry put first.
agregar_log_al_inicio(lg, documento, tipo, mensaje) ==
    <<[documento |-> documento, tipo |-> tipo, mensaje |-> mensaje]>> \o lg

agregar_log(lg, documento, tipo, mensaje) ==
    Append(lg, [documento |-> documento, tipo |-> tipo, mensaje |-> mensaje])

\* As validar_rut_vs_cedula, without the return after the first warning.
validar_rut_vs_cedula_sin_return(data_rut, data_cc, lg) ==
    IF ~Truthy(only_digits(Get(data_rut, "numero_identificacion")))
    THEN agregar_log(agregar_log(lg, "RUT", "WARNING",
                                 <<"El RUT no tiene número de identificación extraído.">>),
                     "CEDULA", "WARNING",
                     <<"La cédula no tiene número de identificación extraído.">>)
    ELSE IF ~Truthy(only_digits(Get(data_cc, "doc_numero")))
    THEN agregar_log(lg, "CEDULA", "WARNING",
                     <<"La cédula no tiene número de identificación extraído.">>)
    ELSE IF only_digits(Get(data_rut, "numero_identificacion"))
            # only_digits(Get(data_cc, "doc_numero"))
    THEN agregar_log(lg, "VALIDACION_CRUZADA", "WARNING",
                     <<"El número de identificación del RUT NO coincide con el de la cédula.",
                       only_digits(Get(data_rut, "numero_identificacion")),
                       only_digits(Get(data_cc, "doc_numero"))>>)
    ELSE agregar_log(lg, "VALIDACION_CRUZADA", "INFO",
                     <<"El número de identificación del RUT coincide con el de la cédula.">>)

validar_rut_vs_cedula(data_rut, data_cc, lg) ==
    LET rut_id == only_digits(Get(data_rut, "numero_identificacion"))
        cc_id == only_digits(Get(data_cc, "doc_numero"))
    IN IF ~Truthy(rut_id)
       THEN agregar_log(lg, "RUT", "WARNING",
                        <<"El RUT no tiene número de identificación extraído.">>)
       ELSE IF ~Truthy(cc_id)
       THEN agregar_log(lg, "CEDULA", "WARNING",
                        <<"La cédula no tiene número de identificación extraído.">>)
       ELSE IF rut_id # cc_id
       THEN agregar_log(lg, "VALIDACION_CRUZADA", "WARNING",
                        <<"El número de identificación del RUT NO coincide con el de la cédula.",
                          rut_id, cc_id>>)
       ELSE agregar_log(lg, "VALIDACION_CRUZADA", "INFO",
                        <<"El número de identificación del RUT coincide con el de la cédula.">>)

validar_cedula_vacia(data_cc, lg) ==
    IF ~Truthy(only_digits(Get(data_cc, "doc_numero")))
    THEN agregar_log(lg, "CEDULA", "WARNING",
                     <<"El campo doc_numero de la cédula está vacío o no fue detectado correctamente.">>)
    ELSE lg

(***************************************************************************)
(* Calendar (datetime.strptime, datetime subtraction)                      *)
(***************************************************************************)
IsLeap(y) == y % 4 = 0 /\ (y % 100 # 0 \/ y % 400 = 0)

DaysInMonth(y, m) ==
    CASE m = 2 -> IF IsLeap(y) THEN 29 ELSE 28
      [] m \in {4, 6, 9, 11} -> 30
      [] OTHER -> 31

RECURSIVE DaysBeforeMonth(_, _)
DaysBeforeMonth(y, m) ==
    IF m = 1 THEN 0 ELSE DaysBeforeMonth(y, m - 1) + DaysInMonth(y, m - 1)

\* date(y, m, d).toordinal()
Ordinal(y, m, d) ==
    (y - 1) * 365 + ((y - 1) \div 4) - ((y - 1) \div 100) + ((y - 1) \div 400)
    + DaysBeforeMonth(y, m) + d

\* The pattern strptime builds for "%Y-%m-%d".
ReStrptime ==
    <<Open(1), Cls(UniDigit, 4, 4), Close(1), Lit("-"),
      Open(2), Cls(UniDigit, 1, 2), Close(2), Lit("-"),
      Open(3), Cls(UniDigit, 1, 2), Close(3), AtEnd>>

\* The date of the fields yy, mm, dd, or a raise when there is no such date
DateOf(yy, mm, dd) ==
    IF yy < 1 \/ mm < 1 \/ mm > 12 \/ dd < 1 THEN Raise("ValueError")
    ELSE IF dd > DaysInMonth(yy, mm) THEN Raise("ValueError")
    ELSE [t |-> "datetime", fecha |-> <<yy, mm, dd>>, seg |-> 0]

\* The match m of the format on the text s
strptime_match(s, m) ==
    IF ~Matched(m) THEN Raise("ValueError")
    ELSE DateOf(IntOf(Group(s, m, 1)), IntOf(Group(s, m, 2)), IntOf(Group(s, m, 3)))

\* datetime.strptime(x, "%Y-%m-%d"): the date <<y, m, d>> at midnight, or a
\* raise when x is not a str, does not match the format or is no date.
strptime(x) ==
    IF x.t # "str" THEN Raise("TypeError")
    ELSE strptime_match(x.v, MatchAt(ReStrptime, x.v, 1, NoCaps))

SegundosDia == 86400

\* As DeltaDays, rounded to the nearest day.
DeltaDays_redondeo(a, b) ==
    ((Ordinal(a.fecha[1], a.fecha[2], a.fecha[3])
      - Ordinal(b.fecha[1], b.fecha[2], b.fecha[3])) * SegundosDia + a.seg - b.seg
     + SegundosDia \div 2)
    \div SegundosDia

\* (a - b).days: the timedelta is normalised so that 0 <= seconds < 86400.
DeltaDays(a, b) ==
    ((Ordinal(a.fecha[1], a.fecha[2], a.fecha[3])
      - Ordinal(b.fecha[1], b.fecha[2], b.fecha[3])) * SegundosDia + a.seg - b.seg)
    \div SegundosDia

DiasVigencia == 30

\* Lines 641-656: the entry for a certificate dated diferencia_dias days ago
EntradaVigencia(lg, diferencia_dias) ==
    IF diferencia_dias > DiasVigencia
    THEN agregar_log(lg, "CERTIFICACION_BANCARIA", "WARNING",
             <<"La certificación bancaria tiene días de expedición (mayor a 30 días).",
               diferencia_dias>>)
    ELSE agregar_log(lg, "CERTIFICACION_BANCARIA", "INFO",
             <<"La certificación bancaria fue expedida hace días (vigente).",
               diferencia_dias>>)

\* Lines 637-659: fecha_doc is what strptime gives
validar_fecha_doc(fecha_doc, lg, hoy) ==
    IF Raised(fecha_doc)
    THEN agregar_log(lg, "CERTIFICACION_BANCARIA", "ERROR",
             <<"Error al procesar fecha de expedición", fecha_doc.e>>)
    ELSE EntradaVigencia(lg, DeltaDays(hoy, fecha_doc))

\* Lines 631-635
validar_fecha_str(fecha_str, lg, hoy) ==
    IF ~Truthy(fecha_str)
    THEN agregar_log(lg, "CERTIFICACION_BANCARIA", "WARNING",
             <<"No se encontró fecha de expedición en la certificación bancaria.">>)
    ELSE validar_fecha_doc(strptime(fecha_str), lg, hoy)

\* hoy is datetime.today(): [fecha |-> <<y, m, d>>, seg |-> second of the day]
validar_fecha_certificacion_bancaria(data_doc16, lg, hoy) ==
    validar_fecha_str(Get(data_doc16, "fecha_expedicion"), lg, hoy)

(***************************************************************************)
(* Diccionario maestro + consolidado                                       *)
(* A row is a dict from column name to value.  The two descriptive columns *)
(* ("Caracterización variable", "Caracterización") are left out.           *)
(***************************************************************************)
Row(doc_id, fuente, nombre, tipo) ==
    ("doc_id" :> doc_id) @@ ("Fuente" :> fuente) @@ ("Nombre de la Variable" :> nombre)
    @@ ("Tipo_Variable" :> tipo)

MASTER_ROWS ==
    <<
      Row("DOC14", "DOC14_RUT_DIAN", "tipo_documento", "texto"),
      Row("DOC14", "DOC14_RUT_DIAN", "numero_identificacion", "texto"),
      Row("DOC14", "DOC14_RUT_DIAN", "primer_apellido", "texto"),
      Row("DOC14", "DOC14_RUT_DIAN", "segundo_apellido", "texto"),
      Row("DOC14", "DOC14_RUT_DIAN", "primer_nombre", "texto"),
      Row("DOC14", "DOC14_RUT_DIAN", "otros_nombres", "texto"),
      Row("DOC12", "DOC12_DocumentoIdentificacion", "doc_tipo", "texto"),
      Row("DOC12", "DOC12_DocumentoIdentificacion", "doc_pais_emisor", "texto"),
      Row("DOC12", "DOC12_DocumentoIdentificacion", "doc_tipo_documento", "texto"),
      Row("DOC12", "DOC12_DocumentoIdentificacion", "doc_numero", "texto"),
      Row("DOC12", "DOC12_DocumentoIdentificacion", "doc_apellidos", "texto"),
      Row("DOC12", "DOC12_DocumentoIdentificacion", "doc_nombres", "texto"),
      Row("DOC12", "DOC12_DocumentoIdentificacion", "doc_fecha_nacimiento", "fecha"),
      Row("DOC12", "DOC12_DocumentoIdentificacion", "doc_lugar_nacimiento", "texto"),
      Row("DOC12", "DOC12_DocumentoIdentificacion", "doc_sexo", "texto"),
      Row("DOC12", "DOC12_DocumentoIdentificacion", "doc_estatura", "texto"),
      Row("DOC12", "DOC12_DocumentoIdentificacion", "doc_grupo_sanguineo_rh", "texto"),
      Row("DOC12", "DOC12_DocumentoIdentificacion", "doc_fecha_expedicion", "fecha"),
      Row("DOC12", "DOC12_DocumentoIdentificacion", "doc_lugar_expedicion", "texto"),
      Row("DOC12", "DOC12_DocumentoIdentificacion", "doc_registrador", "texto"),
      Row("DOC12", "DOC12_DocumentoIdentificacion", "doc_codigo_barras", "texto"),
      Row("DOC12", "DOC12_DocumentoIdentificacion", "doc_huella_indice", "texto"),
      Row("DOC12", "DOC12_DocumentoIdentificacion", "doc_firma_titular", "texto"),
      Row("DOC16", "DOC16_CertificacionBancaria", "doc_tipo", "texto"),
      Row("DOC16", "DOC16_CertificacionBancaria", "banco_nombre", "texto"),
      Row("DOC16", "DOC16_CertificacionBancaria", "banco_nit", "texto"),
      Row("DOC16", "DOC16_CertificacionBancaria", "producto_tipo", "texto"),
      Row("DOC16", "DOC16_CertificacionBancaria", "producto_nombre", "texto"),
      Row("DOC16", "DOC16_CertificacionBancaria", "numero_cuenta", "texto"),
      Row("DOC16", "DOC16_CertificacionBancaria", "fecha_apertura", "fecha"),
      Row("DOC16", "DOC16_CertificacionBancaria", "titular_nombre", "texto"),
      Row("DOC16", "DOC16_CertificacionBancaria", "titular_tipo_documento", "texto"),
      Row("DOC16", "DOC16_CertificacionBancaria", "titular_num_documento", "texto"),
      Row("DOC16", "DOC16_CertificacionBancaria", "estado_cuenta", "texto"),
      Row("DOC16", "DOC16_CertificacionBancaria", "fecha_expedicion", "texto"),
      Row("DOC16", "DOC16_CertificacionBancaria", "ciudad_expedicion", "texto")
    >>

RECURSIVE SelectSeq2(_, _)
\* [f(r) for r in rows if r["doc_id"] == doc_id], as field names
SelectSeq2(rows, doc_id) ==
    IF rows = <<>> THEN <<>>
    ELSE (IF Head(rows)["doc_id"] = doc_id
          THEN <<Head(rows)["Nombre de la Variable"]>> ELSE <<>>)
         \o SelectSeq2(Tail(rows), doc_id)

campos_esperados_por_doc(doc_id) == SelectSeq2(MASTER_ROWS, doc_id)

\* A float with one decimal, held as its number of tenths.
PyFloat(tenths) == [t |-> "float", tenths |-> tenths]

Porcentaje == 100

\* As Round1, rounded to a whole percent: round(Porcentaje * a / b).
Round1_entero(a, b) ==
    10 * (IF 2 * ((Porcentaje * a) % b) < b THEN (Porcentaje * a) \div b
          ELSE IF 2 * ((Porcentaje * a) % b) > b THEN (Porcentaje * a) \div b + 1
          ELSE IF ((Porcentaje * a) \div b) % 2 = 0 THEN (Porcentaje * a) \div b
          ELSE (Porcentaje * a) \div b + 1)

\* round(Porcentaje * a / b, 1) in tenths: nearest tenth, a tie going to the
\* even one (the quotient of a tie is exact in binary for b < 2000).
Round1(a, b) ==
    LET n == Porcentaje * 10 * a
        q == n \div b
        r == n % b
    IN IF 2 * r < b THEN q
       ELSE IF 2 * r > b THEN q + 1
       ELSE IF q % 2 = 0 THEN q ELSE q + 1

\* v is None, or a str that is empty after strip()
Vacio(v) == v.t = "none" \/ (v.t = "str" /\ Strip(v.v) = <<>>)

\* As calcular_completitud, with the record defaulted (data or {}) where the
\* code returns None.
calcular_completitud_sin_guardia(data, campos_esperados) ==
    IF campos_esperados = <<>> THEN None
    ELSE PyFloat(Round1(Cardinality({i \in 1..Len(campos_esperados) :
                                        ~Vacio(Get(OrEmpty(data), campos_esperados[i]))}),
                        Len(campos_esperados)))

calcular_completitud(data, campos_esperados) ==
    IF ~Truthy(data) \/ campos_esperados = <<>> THEN None
    ELSE LET llenos == Cardinality({i \in 1..Len(campos_esperados) :
                                       ~Vacio(Get(data, campos_esperados[i]))})
         IN PyFloat(Round1(llenos, Len(campos_esperados)))

contar_warnings(lg, documento) ==
    Cardinality({i \in 1..Len(lg) : lg[i].tipo = "WARNING" /\ lg[i].documento = documento})

\* A literal string the code writes, as one element.
Literal(w) == Str(<<w>>)

\* (the dash of the source literal is written "-" here)
DocTipoCedula ==
    Literal("Documento de identidad (Cédula de ciudadanía) - imagen anverso/reverso")

DocTipoDoc16 == Literal("Certificación bancaria")

\* pd.DataFrame(rows): the columns are the keys of all rows, and a row
\* without a key has NaN in that column.
DataFrame(rows) ==
    LET cols == UNION {DOMAIN rows[i] : i \in 1..Len(rows)}
    IN [i \in 1..Len(rows) |->
           [c \in cols |-> IF c \in DOMAIN rows[i] THEN rows[i][c] ELSE NaN]]

\* As ValorDe, without the fixed values of lines 792-793 and 802-804: the
\* doc_tipo rows take what the record holds.
ValorDe_sin_fijo(doc_id, key, rut_data0, cc_data0, doc16_data0) ==
    LET cc == SetDefault(SetDefault(cc_data0, "doc_pais_emisor",
                                    Literal("República de Colombia")),
                         "doc_tipo_documento", Literal("Cédula de ciudadanía"))
    IN CASE doc_id = "DOC14" -> Get(rut_data0, key)
         [] doc_id = "DOC12" -> Get(cc, key)
         [] OTHER -> Get(doc16_data0, key)

\* The value written in the row of (doc_id, key), if the record of that kind
\* is given.
ValorDe(doc_id, key, rut_data0, cc_data0, doc16_data0) ==
    LET cc == SetDefault(SetDefault(cc_data0, "doc_pais_emisor",
                                    Literal("República de Colombia")),
                         "doc_tipo_documento", Literal("Cédula de ciudadanía"))
    IN CASE doc_id = "DOC14" -> Get(rut_data0, key)
         [] doc_id = "DOC12" -> IF key = "doc_tipo" THEN DocTipoCedula ELSE Get(cc, key)
         [] OTHER -> IF key = "doc_tipo" THEN DocTipoDoc16 ELSE Get(doc16_data0, key)

fill_master_values(rut_data0, cc_data0, doc16_data0) ==
    LET given(doc_id) ==
            CASE doc_id = "DOC14" -> Truthy(rut_data0)
              [] doc_id = "DOC12" -> Truthy(cc_data0)
              [] OTHER -> Truthy(doc16_data0)
        rows == [i \in 1..Len(MASTER_ROWS) |->
                    LET r == MASTER_ROWS[i]
                    IN IF given(r["doc_id"])
                       THEN r @@ ("Valor" :> ValorDe(r["doc_id"], r["Nombre de la Variable"],
                                                     rut_data0, cc_data0, doc16_data0))
                       ELSE r]
    IN DataFrame(rows)

(***************************************************************************)
(* Clasificación por nombre                                                *)
(***************************************************************************)
\* As guess_doc_id_by_filename, with the marks of the national ID tried
\* before those of the tax registration.
guess_doc_id_by_filename_cedula_primero(filename) ==
    LET f == Upper(filename)
    IN IF \/ Contains(<<"C", "E", "D">>, f)
          \/ Contains(<<"D", "O", "C", "1", "2">>, f)
          \/ Contains(<<"D", "O", "C", "U">>, f)
       THEN Literal("DOC12")
       ELSE IF Contains(<<"R", "U", "T">>, f) \/ Contains(<<"D", "O", "C", "1", "4">>, f)
       THEN Literal("DOC14")
       ELSE IF \/ Contains(<<"C", "E", "R", "T", "I", "F", "I", "C", "A", "C", "I", "O", "N">>, f)
               \/ Contains(<<"B", "A", "N", "C", "A", "R", "I", "A">>, f)
               \/ Contains(<<"D", "O", "C", "1", "6">>, f)
       THEN Literal("DOC16")
       ELSE None

guess_doc_id_by_filename(filename) ==
    LET f == Upper(filename)
    IN IF Contains(<<"R", "U", "T">>, f) \/ Contains(<<"D", "O", "C", "1", "4">>, f)
       THEN Literal("DOC14")
       ELSE IF \/ Contains(<<"C", "E", "D">>, f)
               \/ Contains(<<"C", "E", "D", "U", "L", "A">>, f)
               \/ Contains(<<"D", "O", "C", "1", "2">>, f)
               \/ Contains(<<"D", "O", "C", "U", "M", "E", "N", "T", "O", "I", "D", "E", "N",
                             "T", "I", "F", "I", "C", "A", "C", "I", "O", "N">>, f)
               \/ Contains(<<"D", "O", "C", "U">>, f)
       THEN Literal("DOC12")
       ELSE IF \/ Contains(<<"C", "E", "R", "T", "I", "F", "I", "C", "A", "C", "I", "O", "N">>, f)
               \/ Contains(<<"B", "A", "N", "C", "A", "R", "I", "A">>, f)
               \/ Contains(<<"D", "O", "C", "1", "6">>, f)
       THEN Literal("DOC16")
       ELSE None

(***************************************************************************)
(* Prompter: the model's answer and its parsing                            *)
(* The answer of the language model is None (no content), text that is not *)
(* JSON, or JSON text of a value v, possibly inside a markdown fence.      *)
(***************************************************************************)
RawJson(v, cerca) == [t |-> "raw", valido |-> TRUE, v |-> v, cerca |-> cerca]

RawBasura == [t |-> "raw", valido |-> FALSE]

\* The fence is stripped and json.loads parses the rest; it raises on text
\* that is not JSON (the empty text included).
safe_json_loads(raw) ==
    IF raw.t = "none" \/ ~raw.valido THEN Raise("JSONDecodeError") ELSE raw.v

\* extract_*_fields_raw: resp is what the call to the model service does:
\* [error |-> TRUE] when it raises, else [error |-> FALSE, content |-> raw].
extract_fields_raw(resp) == IF resp.error THEN Raise("APIError") ELSE resp.content

\* The cases and the stored objects of the API
MaxCasos == 2
MaxCorridas == 3

Casos == 1..MaxCasos

\* No object under that path
Ausente == 0

SinRespuesta == [ruta |-> "", case |-> 0, status |-> 0, cuerpo |-> Ausente]

Respuesta(ruta, c, status, cuerpo) ==
    [ruta |-> ruta, case |-> c, status |-> status, cuerpo |-> cuerpo]

InitStorage ==
    /\ casos_creados = 0
    /\ uploads_json = [c \in Casos |-> FALSE]
    /\ result_json = [c \in Casos |-> Ausente]
    /\ output_xlsx = [c \in Casos |-> Ausente]
    /\ en_curso = {}
    /\ corridas = 0
    /\ completados = [c \in Casos |-> Ausente]
    /\ respuesta = SinRespuesta

(***************************************************************************)
(* run_pipeline: the blocks of the three kinds                             *)
(***************************************************************************)
TextoMinRut == 100

FuenteOcr == Literal("ocr_campo26")

FuenteValidado == Literal("validado_campo26")

FuenteIA == Literal("ia_no_validado")

\* round(time.perf_counter() - t0, 3): some number of seconds
Segundos == [t |-> "segundos"]

Ok(r) == [t |-> "ok", data |-> r]

\* As FuenteSegun, without line 905: an unvalidated number gets no tag.
FuenteSegun_sin_etiqueta(rut_data0, numero_validado) ==
    IF Raised(numero_validado) THEN numero_validado
    ELSE IF Truthy(numero_validado)
    THEN Put(Put(rut_data0, "numero_identificacion", numero_validado),
             "_fuente_numero_identificacion", FuenteValidado)
    ELSE rut_data0

\* Lines 899-905: numero_validado is what validar_numero_identificacion gives
\* for the number of the record
FuenteSegun(rut_data0, numero_validado) ==
    IF Raised(numero_validado) THEN numero_validado
    ELSE IF Truthy(numero_validado)
    THEN Put(Put(rut_data0, "numero_identificacion", numero_validado),
             "_fuente_numero_identificacion", FuenteValidado)
    ELSE Put(rut_data0, "_fuente_numero_identificacion", FuenteIA)

\* Lines 894-905: id_ocr is what the focused OCR gives, None when it is not run
ConOcr(rut_data0, rut_texto, id_ocr) ==
    IF Raised(id_ocr) THEN id_ocr
    ELSE IF Truthy(id_ocr)
    THEN Put(Put(rut_data0, "numero_identificacion", id_ocr),
             "_fuente_numero_identificacion", FuenteOcr)
    ELSE FuenteSegun(rut_data0,
             validar_numero_identificacion(rut_texto,
                                           Get(rut_data0, "numero_identificacion")))

\* Lines 889-905: the OCR fallback and the provenance tag.
FallbackNumeroIdentificacion(rut_data0, rut_texto, pdf) ==
    ConOcr(rut_data0, rut_texto,
           IF numero_id_es_sospechoso(Get(rut_data0, "numero_identificacion"))
           THEN ocr_numero_identificacion_desde_campo26(pdf)
           ELSE None)

\* The record r of a block, unless r is a raise
OkSi(r) == IF Raised(r) THEN r ELSE Ok(r)

\* Lines 887-905: normal is what normalizar_campos_rut gives
Doc14Normal(pdf, rut_texto, normal) ==
    IF Raised(normal) THEN normal
    ELSE OkSi(FallbackNumeroIdentificacion(normal, rut_texto, pdf))

\* Line 887: parsed is what safe_json_loads gives
Doc14Json(pdf, rut_texto, parsed) ==
    IF Raised(parsed) THEN parsed
    ELSE Doc14Normal(pdf, rut_texto, normalizar_campos_rut(parsed, rut_texto))

\* Lines 886-887: raw is the answer of the model
Doc14Raw(pdf, rut_texto, raw) ==
    IF Raised(raw) THEN raw ELSE Doc14Json(pdf, rut_texto, safe_json_loads(raw))

\* Lines 882-883: limpio is the cleaned text
RutTexto(limpio) == IF CharLen(limpio) < TextoMinRut THEN <<>> ELSE limpio

\* Lines 881-886: texto0 is what extract_text_pymupdf gives
Doc14Texto(pdf, resp, texto0) ==
    IF Raised(texto0) THEN texto0
    ELSE Doc14Raw(pdf, RutTexto(limpiar_texto_para_llm(texto0.v)), extract_fields_raw(resp))

\* Lines 876-905: abre tells whether open(it.path) succeeds, pdf is the file,
\* resp the outcome of the call to the model.
BloqueDOC14(abre, pdf, resp) ==
    IF ~abre THEN Raise("OSError") ELSE Doc14Texto(pdf, resp, extract_text_pymupdf(pdf))

\* Line 926: parsed is what safe_json_loads gives
Doc12Json(parsed) == IF Raised(parsed) THEN parsed ELSE OkSi(normalizar_campos_cc(parsed))

\* Lines 925-926: raw is the answer of the model
Doc12Raw(raw) == IF Raised(raw) THEN raw ELSE Doc12Json(safe_json_loads(raw))

\* Lines 917-926
BloqueDOC12(abre, pdf, resp) ==
    IF ~abre THEN Raise("OSError")
    ELSE IF ~pdf.valido THEN Raise("FileDataError")
    ELSE IF ~pdf.lector THEN Raise("RuntimeError")
    ELSE Doc12Raw(extract_fields_raw(resp))

\* Lines 929-932: the record the completeness of the cédula is computed on
cc_eval(cc_data0) ==
    SetDefault(SetDefault(Put(cc_data0, "doc_tipo", DocTipoCedula),
                          "doc_pais_emisor", Literal("República de Colombia")),
               "doc_tipo_documento", Literal("Cédula de ciudadanía"))

\* Line 951: parsed is what safe_json_loads gives
Doc16Json(texto, parsed) ==
    IF Raised(parsed) THEN parsed ELSE OkSi(normalizar_campos_doc16(parsed, texto))

\* Lines 950-951: raw is the answer of the model
Doc16Raw(texto, raw) == IF Raised(raw) THEN raw ELSE Doc16Json(texto, safe_json_loads(raw))

\* Lines 948-950: doc16_texto is what extract_doc16_text gives
Doc16ConTexto(resp, doc16_texto) ==
    IF Raised(doc16_texto) THEN doc16_texto
    ELSE Doc16Raw(doc16_texto.v, extract_fields_raw(resp))

\* Lines 944-951
BloqueDOC16(abre, pdf, resp) ==
    IF ~abre THEN Raise("OSError") ELSE Doc16ConTexto(resp, extract_doc16_text(pdf))

\* Lines 965-966
ValidarCedula(cc_data0, lg) ==
    IF Truthy(cc_data0) THEN validar_cedula_vacia(cc_data0, lg) ELSE lg

\* Lines 968-969
ValidarFecha(doc16_data0, lg, hoy) ==
    IF Truthy(doc16_data0) THEN validar_fecha_certificacion_bancaria(doc16_data0, lg, hoy)
    ELSE lg

\* As ValidarCruce, without the test of line 972: the check runs on the
\* records there are, an absent one taken as empty.
ValidarCruce_sin_guardia(rut_data0, cc_data0, lg) ==
    validar_rut_vs_cedula(OrEmpty(rut_data0), OrEmpty(cc_data0), lg)

\* Lines 971-973
ValidarCruce(rut_data0, cc_data0, lg) ==
    IF Truthy(rut_data0) /\ Truthy(cc_data0) THEN validar_rut_vs_cedula(rut_data0, cc_data0, lg)
    ELSE lg

\* Lines 965-973
Validaciones(rut_data0, cc_data0, doc16_data0, lg, hoy) ==
    ValidarCruce(rut_data0, cc_data0,
                 ValidarFecha(doc16_data0, ValidarCedula(cc_data0, lg), hoy))

(***************************************************************************)
(* Bounds and the inputs drawn from them                                   *)
(***************************************************************************)
MaxItems == 3

MaxDigitos == 12

AnioBase == 2024

\* "1234567890123..." cut to n digits
Digs(n) == [i \in 1..n |-> DigitChar(i % 10)]

\* "777..." of n digits
Sietes(n) == [i \in 1..n |-> "7"]

NombreRut == <<"R", "u", "t", ".", "p", "d", "f">>

NombreCedula == <<"c", "e", "d", "u", "l", "a", ".", "p", "d", "f">>

NombreBancaria == <<"b", "a", "n", "c", "a", "r", "i", "a", ".", "p", "d", "f">>

NombreOtro == <<"o", "t", "r", "o", ".", "p", "d", "f">>

Nombres == {NombreRut, NombreCedula, NombreBancaria, NombreOtro}

RECURSIVE SeqsUpTo(_, _)
\* The sequences over S of length at most n
SeqsUpTo(S, n) ==
    IF n = 0 THEN {<<>>}
    ELSE LET shorter == SeqsUpTo(S, n - 1)
         IN shorter \cup {Append(q, x) : q \in {r \in shorter : Len(r) = n - 1}, x \in S}

\* The lists of items run_pipeline may be given: the item at position i has
\* path i.
ItemLists ==
    {[i \in 1..Len(q) |-> [path |-> i, original_name |-> q[i]]] :
        q \in SeqsUpTo(Nombres, MaxItems)}

\* The embedded text of a tax-registration form: field 26 with its label,
\* a separator and a run of digits, inside running text.
Campo26(label, sep, ds) ==
    <<Prosa, "\n", "2", "6", ".", " ", label>> \o sep \o ds \o <<"\n", Prosa>>

LongitudesId == {IdMin - 1, IdMin, IdMax, IdMax + 1, MaxDigitos}

TextosRut ==
    {<<>>, <<Prosa>>}
    \cup {Campo26(LabelNI, sep, Digs(n)) : sep \in {<<" ">>, <<>>}, n \in LongitudesId}
    \cup {Campo26(LabelNI, <<":", "\n">>, Sietes(IdMin + 1)),
          Campo26(LabelNIUpper, <<" ">>, Digs(IdMin)),
          <<"2", "6", ".", " ", LabelNI, " ">> \o Digs(IdMin),
          <<Prosa, " ", LabelCC, " ">> \o Digs(IdMax),
          Campo26(LabelNI, <<" ">>, <<"1", "2", "3", " ", "4", "5", "6", " ", "7", "8", "9">>),
          Campo26(LabelNI, <<" ">>, Digs(IdMin - 1) \o <<ArabicThree>>),
          Campo26(LabelNI, <<" ">>, <<ArabicThree>> \o Digs(IdMin))}

PaginasRut ==
    {<<>>,
     <<[ancla |-> FALSE, lecturas |-> <<Digs(IdMin)>>]>>,
     <<[ancla |-> TRUE, lecturas |-> <<>>]>>,
     <<[ancla |-> TRUE, lecturas |-> <<Digs(IdMax + 1)>>]>>,
     <<[ancla |-> TRUE,
        lecturas |-> <<Digs(IdMin - 1), <<"C", "C", " ">> \o Sietes(IdMin), Digs(IdMax)>>]>>,
     <<[ancla |-> TRUE, lecturas |-> <<Digs(MaxDigitos)>>],
       [ancla |-> TRUE, lecturas |-> <<Sietes(IdMin), Digs(IdMin)>>]>>}

PdfRoto == [valido |-> FALSE, texto |-> <<>>, paginas |-> <<>>, lector |-> TRUE, ocr |-> <<>>]

PdfsRut ==
    {PdfRoto}
    \cup {[valido |-> TRUE, texto |-> t, paginas |-> p, lector |-> TRUE, ocr |-> <<>>] :
             t \in TextosRut, p \in PaginasRut}
    \cup {[valido |-> TRUE, texto |-> <<Prosa>>, paginas |-> <<>>, lector |-> FALSE,
           ocr |-> <<>>]}

IdsModelo ==
    {None, Str(<<>>), Str(Digs(IdMin - 1)), Str(Digs(IdMin)), Str(Sietes(IdMax)),
     Str(Digs(IdMax + 1)), Str(<<"1", "2", ".", "3", "4", "5", ".", "6", "7", "8">>),
     PyInt(Digs(IdMin + 1))}

Ana == Str(<<" ", "A", "n", "a", " ">>)

JsonRut ==
    {Dict([numero_identificacion |-> id]) : id \in IdsModelo}
    \cup {Dict([numero_identificacion |-> id, tipo_documento |-> None,
                primer_apellido |-> Str(<<" ">>), primer_nombre |-> Ana,
                nit |-> Str(Digs(IdMin + 1))]) : id \in {None, Str(Digs(IdMin))}}
    \cup {None, List(<<Ana>>)}

Contesta(v) == [error |-> FALSE, content |-> v]

NoContesta == [error |-> TRUE]

Respuestas(jsons) ==
    {NoContesta, Contesta(None), Contesta(RawBasura)}
    \cup {Contesta(RawJson(v, FALSE)) : v \in jsons}
    \cup {Contesta(RawJson(EmptyDict, TRUE))}

\* What one block reads from its environment: whether the file opens, the
\* file, and what the model service does.  A file that does not open is not
\* read and the model is not called.
Entradas(pdfs, jsons) ==
    {[abre |-> FALSE, pdf |-> PdfRoto, resp |-> NoContesta]}
    \cup {[abre |-> TRUE, pdf |-> pdf, resp |-> resp] :
             pdf \in pdfs, resp \in Respuestas(jsons)}

PdfsCC ==
    {PdfRoto,
     [valido |-> TRUE, texto |-> <<>>, paginas |-> <<>>, lector |-> FALSE, ocr |-> <<>>],
     [valido |-> TRUE, texto |-> <<>>, paginas |-> <<>>, lector |-> TRUE,
      ocr |-> <<Prosa>>]}

JsonCC ==
    {Dict([doc_numero |-> Str(Digs(IdMin))]),
     Dict([doc_numero |-> Str(<<"7", "7", ".", "7", "7", "7", ".", "7", "7", "7">>),
           doc_fecha_nacimiento |-> Str(<<"1", "6", "-", "O", "C", "T", "-", "1", "9", "8", "6">>),
           doc_nombres |-> Ana, doc_huella_indice |-> Str(<<"S", "I">>),
           doc_tipo |-> Str(<<"x">>)]),
     Dict([doc_numero |-> None, doc_sexo |-> Str(<<"F">>)])}

Certifica ==
    <<Prosa, "\n", "B", "a", "n", "c", "o", "l", "o", "m", "b", "i", "a", " ",
      "N", "I", "T", " ", "8", "9", "0", ".", "9", "0", "3", "-", "8", "\n",
      "c", "u", "e", "n", "t", "a", " ", "N", "o", ".", " ", "1", "2", "3", "-", "4", "5", "6",
      "7", "8", " ", "A", "C", "T", "I", "V", "A">>

PdfsDoc16 ==
    {PdfRoto,
     [valido |-> TRUE, texto |-> Certifica, paginas |-> <<>>, lector |-> TRUE, ocr |-> <<>>],
     [valido |-> TRUE, texto |-> <<>>, paginas |-> <<>>, lector |-> TRUE,
      ocr |-> <<"i", "n", "a", "c", "t", "i", "v", "a">>],
     [valido |-> TRUE, texto |-> <<"x">>, paginas |-> <<>>, lector |-> FALSE, ocr |-> <<>>]}

JsonDoc16 ==
    {Dict([fecha_expedicion |-> f, doc_tipo |-> Str(<<"x">>)]) :
        f \in {None, Str(FmtISO(AnioBase, 2, 29)),
               Str(<<"1", " ", "d", "e", " ", "m", "a", "r", "z", "o", " ", "d", "e", " ">>
                   \o Fmt(AnioBase, 4)),
               Str(<<"a", "y", "e", "r">>)}}
    \cup {Dict([banco_nombre |-> Str(<<"B", "X">>), estado_cuenta |-> Str(<<" ">>),
                numero_cuenta |-> Str(<<"9", "9", "-", "1">>), extra |-> Ana])}

\* datetime.today() at the moment of the check
Hoys ==
    {[fecha |-> f, seg |-> sg] :
        f \in {<<AnioBase, 3, 30>>, <<AnioBase, 3, 31>>},
        sg \in {0, SegundosDia - 1}}

(***************************************************************************)
(* run_pipeline as a state machine: pc is the position in the function.    *)
(* loc holds the local variable it, the item of the block last entered.     *)
(***************************************************************************)
Kinds == {"DOC14", "DOC12", "DOC16", "UNKNOWN"}

NoBuckets == [k \in Kinds |-> <<>>]

NoMetricas ==
    [tiempo_por_documento_s |-> <<>>, completitud_por_documento_pct |-> <<>>,
     warnings_por_documento |-> <<>>]

\* metricas[grupo][k] = v
MetSet(m, grupo, k, v) == [m EXCEPT ![grupo] = (k :> v) @@ @]

RECURSIVE Clasifica_sin_unknown(_, _)
\* As Clasifica, with an item of no kind taken for a tax registration.
Clasifica_sin_unknown(its, b) ==
    IF its = <<>> THEN b
    ELSE LET doc_id == guess_doc_id_by_filename(Head(its).original_name)
             key == IF ~Truthy(doc_id) THEN "DOC14" ELSE doc_id.v[1]
         IN Clasifica_sin_unknown(Tail(its), [b EXCEPT ![key] = Append(@, Head(its))])

RECURSIVE Clasifica(_, _)
\* Lines 866-872: the loop that fills the buckets
Clasifica(its, b) ==
    IF its = <<>> THEN b
    ELSE LET doc_id == guess_doc_id_by_filename(Head(its).original_name)
             key == IF ~Truthy(doc_id) THEN "UNKNOWN" ELSE doc_id.v[1]
         IN Clasifica(Tail(its), [b EXCEPT ![key] = Append(@, Head(its))])

Init ==
    /\ pc = "clasificar"
    /\ items \in ItemLists
    /\ buckets = NoBuckets
    /\ rut_data = None
    /\ cc_data = None
    /\ doc16_data = None
    /\ logs = inicializar_logs
    /\ metricas = NoMetricas
    /\ df_master = None
    /\ ret = None
    /\ loc = None
    /\ call = None
    /\ InitStorage

\* Lines 850-872
Clasificar ==
    /\ pc = "clasificar"
    /\ buckets' = Clasifica(items, NoBuckets)
    /\ pc' = "doc14"
    /\ UNCHANGED <<items, rut_data, cc_data, doc16_data, logs, metricas, df_master, ret,
                   loc, call>>
    /\ UNCHANGED apiVars

\* The exception e leaves run_pipeline.
Propaga(e) ==
    /\ pc' = "raised"
    /\ ret' = e

\* What the block of each kind may come to, over everything it may read.
SalidasDOC14 == {BloqueDOC14(e.abre, e.pdf, e.resp) : e \in Entradas(PdfsRut, JsonRut)}

SalidasDOC12 == {BloqueDOC12(e.abre, e.pdf, e.resp) : e \in Entradas(PdfsCC, JsonCC)}

SalidasDOC16 == {BloqueDOC16(e.abre, e.pdf, e.resp) : e \in Entradas(PdfsDoc16, JsonDoc16)}

\* Lines 874-913
ProcesarDOC14 ==
    /\ pc = "doc14"
    /\ IF buckets["DOC14"] = <<>>
       THEN /\ metricas' = MetSet(MetSet(metricas, "tiempo_por_documento_s", "RUT", None),
                                  "completitud_por_documento_pct", "RUT", None)
            /\ pc' = "doc12"
            /\ UNCHANGED <<rut_data, ret, loc>>
       ELSE \E r \in SalidasDOC14 :
                 /\ loc' = [doc |-> "DOC14", it |-> buckets["DOC14"][1]]
                 /\ IF Raised(r)
                    THEN Propaga(r) /\ UNCHANGED <<rut_data, metricas>>
                    ELSE /\ rut_data' = r.data
                         /\ metricas' =
                              MetSet(MetSet(metricas, "tiempo_por_documento_s", "RUT", Segundos),
                                     "completitud_por_documento_pct", "RUT",
                                     calcular_completitud(r.data,
                                                          campos_esperados_por_doc("DOC14")))
                         /\ pc' = "doc12"
                         /\ UNCHANGED ret
    /\ UNCHANGED <<items, buckets, cc_data, doc16_data, logs, df_master, call>>
    /\ UNCHANGED apiVars

\* Lines 915-940
ProcesarDOC12 ==
    /\ pc = "doc12"
    /\ IF buckets["DOC12"] = <<>>
       THEN /\ metricas' = MetSet(MetSet(metricas, "tiempo_por_documento_s", "CEDULA", None),
                                  "completitud_por_documento_pct", "CEDULA", None)
            /\ pc' = "doc16"
            /\ UNCHANGED <<cc_data, ret, loc>>
       ELSE \E r \in SalidasDOC12 :
                 /\ loc' = [doc |-> "DOC12", it |-> buckets["DOC12"][1]]
                 /\ IF Raised(r)
                    THEN Propaga(r) /\ UNCHANGED <<cc_data, metricas>>
                    ELSE /\ cc_data' = r.data
                         /\ metricas' =
                              MetSet(MetSet(metricas, "tiempo_por_documento_s", "CEDULA",
                                            Segundos),
                                     "completitud_por_documento_pct", "CEDULA",
                                     calcular_completitud(cc_eval(r.data),
                                                          campos_esperados_por_doc("DOC12")))
                         /\ pc' = "doc16"
                         /\ UNCHANGED ret
    /\ UNCHANGED <<items, buckets, rut_data, doc16_data, logs, df_master, call>>
    /\ UNCHANGED apiVars

\* Lines 942-963
ProcesarDOC16 ==
    /\ pc = "doc16"
    /\ IF buckets["DOC16"] = <<>>
       THEN /\ metricas' = MetSet(MetSet(metricas, "tiempo_por_documento_s", "DOC16", None),
                                  "completitud_por_documento_pct", "DOC16", None)
            /\ pc' = "validar"
            /\ UNCHANGED <<doc16_data, ret, loc>>
       ELSE \E r \in SalidasDOC16 :
                 /\ loc' = [doc |-> "DOC16", it |-> buckets["DOC16"][1]]
                 /\ IF Raised(r)
                    THEN Propaga(r) /\ UNCHANGED <<doc16_data, metricas>>
                    ELSE /\ doc16_data' = r.data
                         /\ metricas' =
                              MetSet(MetSet(metricas, "tiempo_por_documento_s", "DOC16",
                                            Segundos),
                                     "completitud_por_documento_pct", "DOC16",
                                     calcular_completitud(
                                         Put(r.data, "doc_tipo", DocTipoDoc16),
                                         campos_esperados_por_doc("DOC16")))
                         /\ pc' = "validar"
                         /\ UNCHANGED ret
    /\ UNCHANGED <<items, buckets, rut_data, cc_data, logs, df_master, call>>
    /\ UNCHANGED apiVars

\* df.to_excel(writer, index=False, sheet_name="extraccion"): the cells are
\* those of the DataFrame.
dataframe_to_excel_bytes(df) == [hoja |-> "extraccion", celdas |-> df]

\* As NombresDe, listing the first item only.
NombresDe_solo_primero(its) ==
    IF its = <<>> THEN <<>> ELSE <<Head(its).original_name>>

RECURSIVE NombresDe(_)
\* [x.original_name for x in its]
NombresDe(its) ==
    IF its = <<>> THEN <<>> ELSE <<Head(its).original_name>> \o NombresDe(Tail(its))

\* Lines 975-979
ContarWarnings(m, lg) ==
    MetSet(MetSet(MetSet(MetSet(m, "warnings_por_documento", "RUT",
                                contar_warnings(lg, "RUT")),
                         "warnings_por_documento", "CEDULA", contar_warnings(lg, "CEDULA")),
                  "warnings_por_documento", "DOC16",
                  contar_warnings(lg, "CERTIFICACION_BANCARIA")),
           "warnings_por_documento", "VALIDACION_CRUZADA",
           contar_warnings(lg, "VALIDACION_CRUZADA"))

\* Lines 984-999: the dict run_pipeline returns
Resultado(lg, m, df) ==
    [t |-> "result", rut_data |-> rut_data, cc_data |-> cc_data, doc16_data |-> doc16_data,
     df_master |-> df, excel_bytes |-> dataframe_to_excel_bytes(df), logs |-> lg,
     metricas |-> m, uploads_resumen |-> [k \in Kinds |-> NombresDe(buckets[k])]]

\* Lines 965-999: the checks, the warning counts, the table and the result
ValidarYConsolidar ==
    /\ pc = "validar"
    /\ \E hoy \in Hoys :
         \E lg \in {Validaciones(rut_data, cc_data, doc16_data, logs, hoy)} :
           \E m \in {ContarWarnings(metricas, lg)},
              df \in {fill_master_values(rut_data, cc_data, doc16_data)} :
                /\ logs' = lg
                /\ metricas' = m
                /\ df_master' = df
                /\ ret' = Resultado(lg, m, df)
    /\ pc' = "done"
    /\ UNCHANGED <<items, buckets, rut_data, cc_data, doc16_data, loc, call>>
    /\ UNCHANGED apiVars

Next ==
    \/ Clasificar
    \/ ProcesarDOC14
    \/ ProcesarDOC12
    \/ ProcesarDOC16
    \/ ValidarYConsolidar

Spec == Init /\ [][Next]_vars

(***************************************************************************)
(* The functions called one at a time: from the idle state each action     *)
(* makes one call.  call holds the function and its arguments, ret what it *)
(* returns, logs the list it appends to.                                   *)
(***************************************************************************)
\* Entries a list of logs may hold before a call
LogPrevio == [documento |-> "RUT", tipo |-> "INFO", mensaje |-> <<"previo">>]

LogsPrevios == {<<>>, <<LogPrevio>>}

InitFn ==
    /\ pc = "idle"
    /\ items = <<>>
    /\ buckets = NoBuckets
    /\ rut_data = None
    /\ cc_data = None
    /\ doc16_data = None
    /\ logs \in LogsPrevios
    /\ metricas = NoMetricas
    /\ df_master = None
    /\ ret = None
    /\ loc = None
    /\ call = None
    /\ InitStorage

\* The call returns x.
Returns(c, x) ==
    /\ pc' = "returned"
    /\ call' = c
    /\ ret' = x

Call_BloqueDOC14 ==
    /\ pc = "idle"
    /\ \E e \in Entradas(PdfsRut, JsonRut) :
         Returns([fn |-> "BloqueDOC14", abre |-> e.abre, pdf |-> e.pdf, resp |-> e.resp],
                 BloqueDOC14(e.abre, e.pdf, e.resp))
    /\ UNCHANGED <<items, buckets, rut_data, cc_data, doc16_data, logs, metricas, df_master,
                   loc>>
    /\ UNCHANGED apiVars

Call_BloqueDOC12 ==
    /\ pc = "idle"
    /\ \E e \in Entradas(PdfsCC, JsonCC) :
         Returns([fn |-> "BloqueDOC12", abre |-> e.abre, pdf |-> e.pdf, resp |-> e.resp],
                 BloqueDOC12(e.abre, e.pdf, e.resp))
    /\ UNCHANGED <<items, buckets, rut_data, cc_data, doc16_data, logs, metricas, df_master,
                   loc>>
    /\ UNCHANGED apiVars

Call_BloqueDOC16 ==
    /\ pc = "idle"
    /\ \E e \in Entradas(PdfsDoc16, JsonDoc16) :
         Returns([fn |-> "BloqueDOC16", abre |-> e.abre, pdf |-> e.pdf, resp |-> e.resp],
                 BloqueDOC16(e.abre, e.pdf, e.resp))
    /\ UNCHANGED <<items, buckets, rut_data, cc_data, doc16_data, logs, metricas, df_master,
                   loc>>
    /\ UNCHANGED apiVars

\* The records fill_master_values may be given for one kind: none, the empty
\* one, and records of the model
Registros(jsons) == {None, EmptyDict} \cup {j \in jsons : j.t = "dict"}

Call_fill_master_values ==
    /\ pc = "idle"
    /\ \E r \in Registros(JsonRut), c \in Registros(JsonCC), d \in Registros(JsonDoc16) :
         /\ Returns([fn |-> "fill_master_values", rut_data |-> r, cc_data |-> c,
                     doc16_data |-> d],
                    fill_master_values(r, c, d))
         /\ df_master' = fill_master_values(r, c, d)
    /\ UNCHANGED <<items, buckets, rut_data, cc_data, doc16_data, logs, metricas, loc>>
    /\ UNCHANGED apiVars

\* Identity numbers as the two records may hold them
IdsRegistro ==
    {None, Str(<<>>), Str(<<" ">>), Str(Digs(IdMin + 1)), Str(Sietes(IdMin + 1)),
     Str(<<"1", "2", "3", ".", "4", "5", "6", ".", "7", "8", "9">>),
     Str(<<"C", "C", " ">> \o Sietes(IdMin + 1)), Str(<<"s", "i", "n">>),
     PyInt(Digs(IdMin + 1))}

RegistrosRut == {EmptyDict} \cup {Dict([numero_identificacion |-> id]) : id \in IdsRegistro}

RegistrosCC ==
    {EmptyDict} \cup {Dict([doc_numero |-> id, doc_nombres |-> Ana]) : id \in IdsRegistro}

Call_validar_rut_vs_cedula ==
    /\ pc = "idle"
    /\ \E r \in RegistrosRut, c \in RegistrosCC :
         /\ logs' = validar_rut_vs_cedula(r, c, logs)
         /\ Returns([fn |-> "validar_rut_vs_cedula", data_rut |-> r, data_cc |-> c,
                     logs |-> logs],
                    validar_rut_vs_cedula(r, c, logs))
    /\ UNCHANGED <<items, buckets, rut_data, cc_data, doc16_data, metricas, df_master, loc>>
    /\ UNCHANGED apiVars

Call_validar_cedula_vacia ==
    /\ pc = "idle"
    /\ \E c \in RegistrosCC :
         /\ logs' = validar_cedula_vacia(c, logs)
         /\ Returns([fn |-> "validar_cedula_vacia", data_cc |-> c, logs |-> logs],
                    validar_cedula_vacia(c, logs))
    /\ UNCHANGED <<items, buckets, rut_data, cc_data, doc16_data, metricas, df_master, loc>>
    /\ UNCHANGED apiVars

\* The day before the date f
Ayer(f) ==
    IF f[3] > 1 THEN <<f[1], f[2], f[3] - 1>>
    ELSE IF f[2] > 1 THEN <<f[1], f[2] - 1, DaysInMonth(f[1], f[2] - 1)>>
    ELSE <<f[1] - 1, 12, 31>>

RECURSIVE HaceDias(_, _)
\* The date k days before the date f
HaceDias(f, k) == IF k = 0 THEN f ELSE HaceDias(Ayer(f), k - 1)

\* How many days before today the certificate may be dated
MaxAntiguedad == 32

\* datetime.today() at the call: dates around the ends of months and years,
\* at several times of the day
Relojes ==
    {[fecha |-> f, seg |-> sg] :
        f \in {<<AnioBase, 3, 1>>, <<AnioBase, 3, 30>>, <<AnioBase, 3, 31>>,
               <<AnioBase, 12, 31>>, <<AnioBase + 1, 1, 1>>, <<AnioBase + 1, 1, 31>>},
        sg \in {0, 1, SegundosDia \div 2, SegundosDia - 1}}

Call_validar_fecha_certificacion_bancaria ==
    /\ pc = "idle"
    /\ \E hoy \in Relojes, k \in 0..MaxAntiguedad :
         LET d == Dict([fecha_expedicion |-> Str(FmtISO(HaceDias(hoy.fecha, k)[1],
                                                        HaceDias(hoy.fecha, k)[2],
                                                        HaceDias(hoy.fecha, k)[3]))])
         IN /\ logs' = validar_fecha_certificacion_bancaria(d, logs, hoy)
            /\ Returns([fn |-> "validar_fecha_certificacion_bancaria", data_doc16 |-> d,
                        logs |-> logs, hoy |-> hoy, dias |-> k],
                       validar_fecha_certificacion_bancaria(d, logs, hoy))
    /\ UNCHANGED <<items, buckets, rut_data, cc_data, doc16_data, metricas, df_master, loc>>
    /\ UNCHANGED apiVars

\* Declared field lists beyond those of the dictionary: "1", ..., "n"
Campos(n) == [i \in 1..n |-> ToString(i)]

\* The longest list whose records are all enumerated
MaxCampos == 3

\* What a field of a record may hold
Valores == {None, Str(<<" ">>), Str(<<"v">>), PyInt(<<"0">>)}

\* The record in which exactly the first k of campos have a value, next to
\* a key that is no declared field
Llenos(campos, k) ==
    Dict([n \in {campos[i] : i \in 1..k} \cup {"_fuente_numero_identificacion"} |->
             IF n = "_fuente_numero_identificacion" THEN FuenteIA ELSE Str(<<"v">>)])

\* A call of calcular_completitud: the record, the declared fields and the
\* positions at which a field is then filled in.
Caso(data, campos, prueba) == [data |-> data, campos |-> campos, prueba |-> prueba]

CasosCortos ==
    {Caso(Dict(f), Campos(n), 1..n) :
        f \in UNION {[S -> Valores] : S \in SUBSET {Campos(MaxCampos)[i] : i \in 1..MaxCampos}},
        n \in 0..MaxCampos}
    \cup {Caso(None, Campos(n), {}) : n \in 0..MaxCampos}

CasosDiccionario ==
    {Caso(Llenos(campos_esperados_por_doc(k), n), campos_esperados_por_doc(k),
          1..Len(campos_esperados_por_doc(k))) :
        k \in {"DOC14", "DOC12", "DOC16"}, n \in {0, 1, 5, 6}}

\* Lists around the length at which one field is worth a tenth of a percent
CasosLargos ==
    {Caso(Llenos(Campos(n), k), Campos(n), {k + 1}) :
        n \in {Porcentaje * 10, Porcentaje * 10 + 1},
        k \in {0, 1, Porcentaje * 5 - 1, Porcentaje * 5, Porcentaje * 10 - 1}}

CasosCompletitud == CasosCortos \cup CasosDiccionario \cup CasosLargos

Call_calcular_completitud ==
    /\ pc = "idle"
    /\ \E c \in CasosCompletitud :
         Returns([fn |-> "calcular_completitud", data |-> c.data,
                  campos_esperados |-> c.campos],
                 calcular_completitud(c.data, c.campos))
    /\ UNCHANGED <<items, buckets, rut_data, cc_data, doc16_data, logs, metricas, df_master,
                   loc>>
    /\ UNCHANGED apiVars

\* calcular_completitud before and after a declared field that was empty
\* is given a value: antes is the first result, ret the second.
Call_completar ==
    /\ pc = "idle"
    /\ \E c \in CasosCompletitud, i \in 1..(Porcentaje * 10 + 1), v \in {Str(<<"v">>), PyInt(<<"0">>)} :
         /\ i \in c.prueba
         /\ i <= Len(c.campos)
         /\ Vacio(Get(c.data, c.campos[i]))
         /\ Returns([fn |-> "completar", data |-> c.data, campos_esperados |-> c.campos,
                     campo |-> c.campos[i], valor |-> v,
                     antes |-> calcular_completitud(c.data, c.campos)],
                    calcular_completitud(Put(c.data, c.campos[i], v), c.campos))
    /\ UNCHANGED <<items, buckets, rut_data, cc_data, doc16_data, logs, metricas, df_master,
                   loc>>
    /\ UNCHANGED apiVars

\* Month names as the documents print them
MesAbr(m) ==
    CASE m = 1 -> <<"E", "N", "E">> [] m = 2 -> <<"F", "E", "B">>
      [] m = 3 -> <<"M", "A", "R">> [] m = 4 -> <<"A", "B", "R">>
      [] m = 5 -> <<"M", "A", "Y">> [] m = 6 -> <<"J", "U", "N">>
      [] m = 7 -> <<"J", "U", "L">> [] m = 8 -> <<"A", "G", "O">>
      [] m = 9 -> <<"S", "E", "P">> [] m = 10 -> <<"O", "C", "T">>
      [] m = 11 -> <<"N", "O", "V">> [] OTHER -> <<"D", "I", "C">>

MesLargo(m) ==
    CASE m = 1 -> <<"e", "n", "e", "r", "o">>
      [] m = 2 -> <<"f", "e", "b", "r", "e", "r", "o">>
      [] m = 3 -> <<"m", "a", "r", "z", "o">>
      [] m = 4 -> <<"a", "b", "r", "i", "l">>
      [] m = 5 -> <<"m", "a", "y", "o">>
      [] m = 6 -> <<"j", "u", "n", "i", "o">>
      [] m = 7 -> <<"j", "u", "l", "i", "o">>
      [] m = 8 -> <<"a", "g", "o", "s", "t", "o">>
      [] m = 9 -> <<"s", "e", "p", "t", "i", "e", "m", "b", "r", "e">>
      [] m = 10 -> <<"o", "c", "t", "u", "b", "r", "e">>
      [] m = 11 -> <<"n", "o", "v", "i", "e", "m", "b", "r", "e">>
      [] OTHER -> <<"d", "i", "c", "i", "e", "m", "b", "r", "e">>

\* The date <<d, m, y>> written in one of the regional formats
Escribe(formato, f) ==
    CASE formato = "abreviado" ->
           Fmt(f[1], 2) \o <<"-">> \o MesAbr(f[2]) \o <<"-">> \o Fmt(f[3], 4)
      [] formato = "largo" ->
           DigitsOf(f[1]) \o <<" ", "d", "e", " ">> \o MesLargo(f[2]) \o <<" ", "d", "e", " ">>
           \o Fmt(f[3], 4)
      [] OTHER -> Fmt(f[1], 2) \o <<"/">> \o Fmt(f[2], 2) \o <<"/">> \o Fmt(f[3], 4)

Formatos == {"abreviado", "largo", "numerico"}

\* <<day, month, year>>
Fechas == {<<16, 10, 1986>>, <<5, 2, 2026>>, <<12, 11, 2004>>}

Call_normalize_date ==
    /\ pc = "idle"
    /\ \E fm \in Formatos, f \in Fechas :
         Returns([fn |-> "normalize_date", formato |-> fm, fecha |-> f,
                  x |-> Str(Escribe(fm, f))],
                 normalize_date(Str(Escribe(fm, f))))
    /\ UNCHANGED <<items, buckets, rut_data, cc_data, doc16_data, logs, metricas, df_master,
                   loc>>
    /\ UNCHANGED apiVars

Call_normalize_date_es ==
    /\ pc = "idle"
    /\ \E fm \in Formatos, f \in Fechas :
         Returns([fn |-> "normalize_date_es", formato |-> fm, fecha |-> f,
                  x |-> Str(Escribe(fm, f))],
                 normalize_date_es(Str(Escribe(fm, f))))
    /\ UNCHANGED <<items, buckets, rut_data, cc_data, doc16_data, logs, metricas, df_master,
                   loc>>
    /\ UNCHANGED apiVars

\* A text x of a date field and the <<day, month, year>> it writes, <<>> when
\* it writes no date.
Escrito(x, f) == [x |-> x, fecha |-> f]

\* Text of the form YYYY-MM-DD, of dates and of what is no date
Isos ==
    {Escrito(FmtISO(y, m, d), <<d, m, y>>) :
        y \in {0, 86, AnioBase}, m \in {0, 1, 2, 12, 13}, d \in {0, 1, 29, 31, 32, 99}}

TextosFecha ==
    {Escrito(Escribe(fm, f), f) : fm \in Formatos, f \in Fechas}
    \cup Isos
    \cup {Escrito(<<"4", "5", "/", "1", "3", "/", "2", "0", "0", "4">>, <<45, 13, 2004>>),
          Escrito(<<"0", "0", "-", "0", "0", "-", "2", "0", "0", "4">>, <<0, 0, 2004>>),
          Escrito(<<"3", "1", "/", "0", "2", "/", "2", "0", "2", "4">>, <<31, 2, 2024>>),
          Escrito(<<"9", "9", " ", "d", "e", " ", "m", "a", "y", "o", " ", "d", "e", " ",
                    "2", "0", "2", "4">>, <<99, 5, 2024>>),
          Escrito(<<" ", "1", "6", " ", "o", "c", "t", " ", "1", "9", "8", "6", " ">>,
                  <<16, 10, 1986>>),
          Escrito(<<"1", "1", "2", "/", "1", "1", "/", "2", "0", "0", "4", "5">>, <<>>),
          Escrito(<<"S", "i", "n", " ", "f", "e", "c", "h", "a">>, <<>>),
          Escrito(<<"N", "/", "A">>, <<>>),
          Escrito(<<" ", "n", "/", "a", " ">>, <<>>),
          Escrito(<<"1", "2", "3", "4", "5">>, <<>>),
          Escrito(<<"5", " ", "m", "a", "y", "o">>, <<>>)}

Normalizadores == {"normalize_date", "normalize_date_es"}

\* The normalizer named con, applied to x
Normaliza(con, x) == IF con = "normalize_date" THEN normalize_date(x) ELSE normalize_date_es(x)

\* One normalizer on any text
Call_normalizar ==
    /\ pc = "idle"
    /\ \E con \in Normalizadores, e \in TextosFecha :
         Returns([fn |-> "normalizar", con |-> con, x |-> Str(e.x), fecha |-> e.fecha],
                 Normaliza(con, Str(e.x)))
    /\ UNCHANGED <<items, buckets, rut_data, cc_data, doc16_data, logs, metricas, df_master,
                   loc>>
    /\ UNCHANGED apiVars

\* A normalizer on what a normalizer returned
Call_renormalizar ==
    /\ pc = "idle"
    /\ \E con \in Normalizadores, luego \in Normalizadores, e \in TextosFecha :
         \E antes \in {Normaliza(con, Str(e.x))} :
           Returns([fn |-> "renormalizar", con |-> con, luego |-> luego, x |-> Str(e.x),
                    antes |-> antes],
                   Normaliza(luego, antes))
    /\ UNCHANGED <<items, buckets, rut_data, cc_data, doc16_data, logs, metricas, df_master,
                   loc>>
    /\ UNCHANGED apiVars

\* What a field of digits may hold
TextosDigitos ==
    {None, Str(<<>>), Str(<<" ">>), Str(<<"a", "b", "c">>), Str(<<"a", "1", "b", "2">>),
     Str(<<"1", "2", ".", "3", "4", "5", "-", "6">>), Str(Digs(IdMax)),
     Str(<<"0">>), PyInt(<<"0">>), PyInt(Digs(IdMin)),
     Str(<<"1", ArabicThree, "2">>), Str(<<ArabicThree>>)}

Call_only_digits ==
    /\ pc = "idle"
    /\ \E x \in TextosDigitos : Returns([fn |-> "only_digits", x |-> x], only_digits(x))
    /\ UNCHANGED <<items, buckets, rut_data, cc_data, doc16_data, logs, metricas, df_master,
                   loc>>
    /\ UNCHANGED apiVars

Call_agregar_log ==
    /\ pc = "idle"
    /\ \E documento \in {"RUT", "CEDULA"}, tipo \in {"INFO", "WARNING", "ERROR"} :
         /\ logs' = agregar_log(logs, documento, tipo, <<"m">>)
         /\ Returns([fn |-> "agregar_log", logs |-> logs, documento |-> documento,
                     tipo |-> tipo, mensaje |-> <<"m">>],
                    None)
    /\ UNCHANGED <<items, buckets, rut_data, cc_data, doc16_data, metricas, df_master, loc>>
    /\ UNCHANGED apiVars

\* The bank certificates the checks of run_pipeline may be given
RegistrosDoc16 ==
    {None, EmptyDict, Dict([fecha_expedicion |-> None, banco_nombre |-> Ana]),
     Dict([fecha_expedicion |-> Str(<<"a", "y", "e", "r">>)]),
     Dict([fecha_expedicion |-> Str(FmtISO(AnioBase, 3, 1))]),
     Dict([fecha_expedicion |-> Str(FmtISO(AnioBase, 1, 1))])}

\* Lines 965-973, the three checks of run_pipeline in their order
Call_Validaciones ==
    /\ pc = "idle"
    /\ \E r \in {None} \cup RegistrosRut, c \in {None} \cup RegistrosCC, d \in RegistrosDoc16 :
         \E hoy \in {[fecha |-> <<AnioBase, 3, 1>>, seg |-> 1]} :
           /\ logs' = Validaciones(r, c, d, logs, hoy)
           /\ Returns([fn |-> "Validaciones", rut_data |-> r, cc_data |-> c, doc16_data |-> d,
                       logs |-> logs, hoy |-> hoy],
                      Validaciones(r, c, d, logs, hoy))
    /\ UNCHANGED <<items, buckets, rut_data, cc_data, doc16_data, metricas, df_master, loc>>
    /\ UNCHANGED apiVars

\* The fields a rule of the text can give a value for
CamposDeRegla ==
    {"numero_identificacion", "banco_nit", "numero_cuenta", "estado_cuenta", "banco_nombre"}

\* The rule of each field, as corregir_numero_identificacion and
\* normalizar_campos_doc16 call it on the text
ReglaDeCampo(campo, texto) ==
    CASE campo = "numero_identificacion" -> extraer_numero_identificacion_regla(texto)
      [] campo = "banco_nit" -> extraer_banco_nit_regla(texto)
      [] campo = "numero_cuenta" -> extraer_numero_cuenta_regla(texto)
      [] campo = "estado_cuenta" -> extraer_estado_cuenta_regla(texto)
      [] campo = "banco_nombre" -> BancoPorMarca(texto)

\* Texts of certificates and forms the rules are given
TextosRegla ==
    {<<>>, <<Prosa>>, Certifica,
     <<"N", ".", "I", ".", "T", ":", " ", "8", "0", "0", ".", "2", "4", "4", "-", "7", " ">>,
     <<"c", "u", "e", "n", "t", "a", " ", "1", "2", "3", " ", "4", "5", "6", "-", "7", "8", " ",
       "x">>,
     <<"c", "u", "e", "n", "t", "a", " ", "1", "2", "3">>,
     <<"a", "c", "t", "i", "v", "i", "d", "a", "d">>,
     <<"I", "n", "a", "c", "t", "i", "v", "o">>,
     <<"C", "O", "L", "P", "A", "T", "R", "I", "A">>,
     <<"D", "a", "v", "i", "v", "i", "e", "n", "d", "a">>,
     <<"2", "6", ".", " ", LabelNI, "\n", "1", "2", "3", " ", "4", "5", "6", "\n", "7", "8">>,
     <<LabelCC, " ">> \o Digs(IdMax) \o <<" ", "x">>,
     <<LabelCC, " ">> \o Digs(MaxDigitos)}

Call_ReglaDeCampo ==
    /\ pc = "idle"
    /\ \E campo \in CamposDeRegla, texto \in TextosRegla :
         Returns([fn |-> "ReglaDeCampo", campo |-> campo, texto |-> texto],
                 ReglaDeCampo(campo, texto))
    /\ UNCHANGED <<items, buckets, rut_data, cc_data, doc16_data, logs, metricas, df_master,
                   loc>>
    /\ UNCHANGED apiVars

\* Display names with the marks of several kinds, of one kind in another
\* letter case, and of none
NombresMixtos ==
    Nombres
    \cup {<<"R", "U", "T", "_", "c", "e", "d", "u", "l", "a", ".", "P", "D", "F">>,
          <<"d", "o", "c", "1", "6", " ", "C", "e", "d", ".", "p", "d", "f">>,
          <<"b", "a", "n", "c", "a", "r", "i", "a", "-", "r", "u", "t">>,
          <<"D", "o", "c", "u", "m", "e", "n", "t", "o", ".", "p", "d", "f">>,
          <<>>}

\* The lists of items the loop of lines 866-872 may be given
ListasMixtas ==
    {[i \in 1..Len(q) |-> [path |-> i, original_name |-> q[i]]] :
        q \in SeqsUpTo(NombresMixtos, MaxItems)}

\* Lines 866-872 alone: the buckets of a list of items
Call_Clasifica ==
    /\ pc = "idle"
    /\ \E its \in ListasMixtas :
         /\ items' = its
         /\ buckets' = Clasifica(its, NoBuckets)
         /\ Returns([fn |-> "Clasifica", items |-> its], None)
    /\ UNCHANGED <<rut_data, cc_data, doc16_data, logs, metricas, df_master, loc>>
    /\ UNCHANGED apiVars

\* Answers of the model for the four fields the rules can fill: each field
\* null, empty once normalized, or with a value
RegistrosBackfill ==
    {Dict([banco_nit |-> nit, numero_cuenta |-> nc, estado_cuenta |-> est,
           banco_nombre |-> nom]) :
        nit \in {None, Str(<<>>), Str(<<"9", "-", "1">>)},
        nc \in {None, Str(<<"s", "n">>), Str(<<"9", "9", "-", "1">>)},
        est \in {None, Str(<<>>), Str(<<" ">>)},
        nom \in {None, Str(<<" ">>), Str(<<" ", "B", "X", " ">>)}}

\* Texts of certificates: with every mark, with some, with none
CertificaCuenta ==
    <<"B", "a", "n", "c", "o", "l", "o", "m", "b", "i", "a", " ", "N", "I", "T", " ",
      "8", "9", "0", ".", "9", "0", "3", "-", "8", "\n",
      "c", "u", "e", "n", "t", "a", " ", "1", "2", "3", "-", "4", "5", "6", "7", "8", " ",
      "A", "C", "T", "I", "V", "A">>

TextosBackfill ==
    {<<>>, Certifica, CertificaCuenta,
     <<"I", "n", "a", "c", "t", "i", "v", "o">>,
     <<"C", "O", "L", "P", "A", "T", "R", "I", "A">>}

Call_normalizar_campos_doc16 ==
    /\ pc = "idle"
    /\ \E data \in RegistrosBackfill, texto \in TextosBackfill :
         Returns([fn |-> "normalizar_campos_doc16", data |-> data, texto |-> texto],
                 normalizar_campos_doc16(data, texto))
    /\ UNCHANGED <<items, buckets, rut_data, cc_data, doc16_data, logs, metricas, df_master,
                   loc>>
    /\ UNCHANGED apiVars

NextFn ==
    \/ Call_normalizar_campos_doc16
    \/ Call_Clasifica
    \/ Call_ReglaDeCampo
    \/ Call_agregar_log
    \/ Call_Validaciones
    \/ Call_only_digits
    \/ Call_normalizar
    \/ Call_renormalizar
    \/ Call_BloqueDOC14
    \/ Call_BloqueDOC12
    \/ Call_BloqueDOC16
    \/ Call_fill_master_values
    \/ Call_validar_rut_vs_cedula
    \/ Call_validar_cedula_vacia
    \/ Call_validar_fecha_certificacion_bancaria
    \/ Call_calcular_completitud
    \/ Call_completar
    \/ Call_normalize_date
    \/ Call_normalize_date_es

SpecFn == InitFn /\ [][NextFn]_vars

(***************************************************************************)
(* The HTTP handlers of backend_api/main.py over the storage of            *)
(* backend_api/storage.py.  A case is the identifier /upload generates;    *)
(* a stored result or spreadsheet is identified by the number of the       *)
(* /process request whose run_pipeline call produced it.  /process,        *)
(* /results and /export are plain def handlers, which the framework runs   *)
(* in worker threads: a request is served while another is between two of  *)
(* its storage calls.                                                      *)
(***************************************************************************)
InitApi ==
    /\ pc = "idle"
    /\ items = <<>>
    /\ buckets = NoBuckets
    /\ rut_data = None
    /\ cc_data = None
    /\ doc16_data = None
    /\ logs = inicializar_logs
    /\ metricas = NoMetricas
    /\ df_master = None
    /\ ret = None
    /\ loc = None
    /\ call = None
    /\ InitStorage

\* storage.py lines 131-136: the list of uploads is empty when there is no index
get_uploads(c) == uploads_json[c]

\* storage.py lines 163-165, 101-106: None when the object is missing
get_result(c) == result_json[c]

\* storage.py lines 191-196
get_excel(c) == output_xlsx[c]

\* main.py lines 138-170: a new case; the index is saved after every file
\* was stored, and a storage error answers 500 and saves no index
upload ==
    /\ casos_creados < MaxCasos
    /\ \E files \in {"ninguno", "varios"}, sube \in BOOLEAN :
          IF files = "ninguno"
          THEN /\ respuesta' = Respuesta("upload", 0, 400, Ausente)
               /\ UNCHANGED <<casos_creados, uploads_json>>
          ELSE /\ casos_creados' = casos_creados + 1
               /\ IF sube
                  THEN /\ uploads_json' = [uploads_json EXCEPT ![casos_creados + 1] = TRUE]
                       /\ respuesta' = Respuesta("upload", casos_creados + 1, 200, Ausente)
                  ELSE /\ uploads_json' = uploads_json
                       /\ respuesta' = Respuesta("upload", casos_creados + 1, 500, Ausente)
    /\ UNCHANGED <<result_json, output_xlsx, en_curso, corridas, completados>>
    /\ UNCHANGED pipelineVars

\* main.py lines 178-216: 404 when the case has no uploads; otherwise the
\* files are downloaded and run_pipeline is called, which raise or return
process_run_pipeline ==
    /\ corridas < MaxCorridas
    /\ corridas' = corridas + 1
    /\ \E c \in Casos, corre \in BOOLEAN :
          IF ~get_uploads(c)
          THEN /\ respuesta' = Respuesta("process", c, 404, Ausente)
               /\ en_curso' = en_curso
          ELSE IF corre
               THEN /\ en_curso' = en_curso \cup
                          {[corrida |-> corridas + 1, case |-> c, paso |-> "save_result"]}
                    /\ respuesta' = SinRespuesta
               ELSE /\ en_curso' = en_curso
                    /\ respuesta' = Respuesta("process", c, 500, Ausente)
    /\ UNCHANGED <<casos_creados, uploads_json, result_json, output_xlsx, completados>>
    /\ UNCHANGED pipelineVars

\* main.py line 224, storage.py lines 147-155, 59-78: the upload of
\* result.json replaces the object, or raises
process_save_result ==
    /\ \E r \in en_curso, sube \in BOOLEAN :
          /\ r.paso = "save_result"
          /\ IF sube
             THEN /\ result_json' = [result_json EXCEPT ![r.case] = r.corrida]
                  /\ en_curso' = (en_curso \ {r}) \cup {[r EXCEPT !.paso = "save_excel"]}
                  /\ respuesta' = SinRespuesta
             ELSE /\ result_json' = result_json
                  /\ en_curso' = en_curso \ {r}
                  /\ respuesta' = Respuesta("process", r.case, 500, Ausente)
    /\ UNCHANGED <<casos_creados, uploads_json, output_xlsx, corridas, completados>>
    /\ UNCHANGED pipelineVars

\* main.py lines 227-244, storage.py lines 175-182: the upload of
\* output.xlsx replaces the object, or raises; then the request answers
process_save_excel ==
    /\ \E r \in en_curso, sube \in BOOLEAN :
          /\ r.paso = "save_excel"
          /\ en_curso' = en_curso \ {r}
          /\ IF sube
             THEN /\ output_xlsx' = [output_xlsx EXCEPT ![r.case] = r.corrida]
                  /\ completados' = [completados EXCEPT ![r.case] = r.corrida]
                  /\ respuesta' = Respuesta("process", r.case, 200, r.corrida)
             ELSE /\ output_xlsx' = output_xlsx
                  /\ completados' = completados
                  /\ respuesta' = Respuesta("process", r.case, 500, Ausente)
    /\ UNCHANGED <<casos_creados, uploads_json, result_json, corridas>>
    /\ UNCHANGED pipelineVars

\* main.py lines 250-255
get_results_endpoint ==
    /\ \E c \in Casos :
          respuesta' = IF get_result(c) = Ausente
                       THEN Respuesta("results", c, 404, Ausente)
                       ELSE Respuesta("results", c, 200, get_result(c))
    /\ UNCHANGED <<casos_creados, uploads_json, result_json, output_xlsx, en_curso,
                   corridas, completados>>
    /\ UNCHANGED pipelineVars

\* main.py lines 261-272
export_excel ==
    /\ \E c \in Casos :
          respuesta' = IF get_excel(c) = Ausente
                       THEN Respuesta("export", c, 404, Ausente)
                       ELSE Respuesta("export", c, 200, get_excel(c))
    /\ UNCHANGED <<casos_creados, uploads_json, result_json, output_xlsx, en_curso,
                   corridas, completados>>
    /\ UNCHANGED pipelineVars

NextApi ==
    \/ upload
    \/ process_run_pipeline
    \/ process_save_result
    \/ process_save_excel
    \/ get_results_endpoint
    \/ export_excel

SpecApi == InitApi /\ [][NextApi]_vars

(***************************************************************************)
(* Properties                                                              *)
(***************************************************************************)
\* A string of 8 to 10 digits, digits being what \d and str.isdigit accept
EsIdentidad(v) ==
    /\ v.t = "str"
    /\ Len(v.v) >= 8
    /\ Len(v.v) <= 10
    /\ \A i \in 1..Len(v.v) : v.v[i] \in UniDigit

C2_NadaPropaga == pc # "raised" /\ (pc = "done" => ret.t = "result")

\* The record of a kind
RegistroDe(k) ==
    CASE k = "DOC14" -> rut_data [] k = "DOC12" -> cc_data [] OTHER -> doc16_data

\* C3: a kind that fails does not stop the others: when run_pipeline has
\* ended, every kind with an input document other than a failed one has its
\* record, and the table is there.
C3_FallosAislados ==
    pc \in {"raised", "done"} =>
        /\ df_master # None
        /\ \A k \in {"DOC14", "DOC12", "DOC16"} :
             (buckets[k] # <<>> /\ ~(pc = "raised" /\ loc.doc = k)) => RegistroDe(k) # None

\* The model answered, and its answer is not JSON
NoEsJson(resp) ==
    /\ ~resp.error
    /\ \/ resp.content = None
       \/ (resp.content.t = "raw" /\ ~resp.content.valido)

\* C4: when the answer of the model for a kind is not JSON, the block of
\* that kind does not end in the parser's exception: it goes on with an
\* empty record, and an entry of severity ERROR is logged.
C4_RespuestaIlegible ==
    (/\ pc = "returned"
     /\ call.fn \in {"BloqueDOC14", "BloqueDOC12", "BloqueDOC16"}
     /\ NoEsJson(call.resp))
    => /\ ret # Raise("JSONDecodeError")
       /\ (~Raised(ret) => \E i \in 1..Len(logs) : logs[i].tipo = "ERROR")

\* The record of kind k among the arguments of fill_master_values
ArgDe(k) ==
    CASE k = "DOC14" -> call.rut_data [] k = "DOC12" -> call.cc_data
      [] OTHER -> call.doc16_data

\* C5: whichever records are given, none included, the table of
\* fill_master_values has len(MASTER_ROWS) rows, and each row of a kind
\* without record has a Valor, which is null.
C5_FilasYValorNulo ==
    (pc = "returned" /\ call.fn = "fill_master_values") =>
        /\ Len(ret) = Len(MASTER_ROWS)
        /\ \A i \in 1..Len(ret) :
             ~Truthy(ArgDe(MASTER_ROWS[i]["doc_id"])) =>
                 /\ "Valor" \in DOMAIN ret[i]
                 /\ ret[i]["Valor"] \in {None, NaN}

\* The digits of an identity as a record holds it, none when it is missing
Identidad(v) == IF v.t \in {"str", "int"} THEN Filter(v.v, UniDigit) ELSE <<>>

\* The last entry of the logs is of severity tipo and tagged documento.
Ultima(documento, tipo) ==
    /\ logs[Len(logs)].documento = documento
    /\ logs[Len(logs)].tipo = tipo

\* C6: validar_rut_vs_cedula appends exactly one entry: INFO when the digits
\* of the two identities are equal, WARNING when both are there and differ,
\* both under VALIDACION_CRUZADA; when one is missing, a WARNING tagged with
\* the missing side and nothing under VALIDACION_CRUZADA.
C6_UnaEntrada ==
    (pc = "returned" /\ call.fn = "validar_rut_vs_cedula") =>
        LET rut == Identidad(Get(call.data_rut, "numero_identificacion"))
            cc == Identidad(Get(call.data_cc, "doc_numero"))
        IN /\ Len(logs) = Len(call.logs) + 1
           /\ SubSeq(logs, 1, Len(call.logs)) = call.logs
           /\ (rut # <<>> /\ cc # <<>> /\ rut = cc) => Ultima("VALIDACION_CRUZADA", "INFO")
           /\ (rut # <<>> /\ cc # <<>> /\ rut # cc) => Ultima("VALIDACION_CRUZADA", "WARNING")
           /\ (rut = <<>> \/ cc = <<>>) =>
                  /\ logs[Len(logs)].tipo = "WARNING"
                  /\ logs[Len(logs)].documento
                       \in (IF rut = <<>> THEN {"RUT"} ELSE {}) \cup
                           (IF cc = <<>> THEN {"CEDULA"} ELSE {})

\* Two identities written differently, with the same digits
C6_Witness ==
    /\ pc = "returned"
    /\ call.fn = "validar_rut_vs_cedula"
    /\ call.logs # <<>>
    /\ Get(call.data_rut, "numero_identificacion") # Get(call.data_cc, "doc_numero")
    /\ Ultima("VALIDACION_CRUZADA", "INFO")

\* C7: for an ISO date, validar_fecha_certificacion_bancaria appends WARNING
\* when the date is more than 30 whole days before today and INFO
\* otherwise, at any time of the day: WARNING at 31 days, INFO at 30.
C7_Vigencia ==
    (pc = "returned" /\ call.fn = "validar_fecha_certificacion_bancaria") =>
        /\ Len(logs) = Len(call.logs) + 1
        /\ Ultima("CERTIFICACION_BANCARIA", IF call.dias > 30 THEN "WARNING" ELSE "INFO")

\* A certificate of 30 days checked in the last second of the day
C7_Witness ==
    /\ pc = "returned"
    /\ call.fn = "validar_fecha_certificacion_bancaria"
    /\ call.dias = 30
    /\ call.hoy.seg = SegundosDia - 1
    /\ Ultima("CERTIFICACION_BANCARIA", "INFO")

\* No declared field of the record has a value.
SinValores(data, campos) ==
    ~Truthy(data) \/ \A i \in 1..Len(campos) : Vacio(Get(data, campos[i]))

\* C8 as stated: calcular_completitud of an empty record against a non-empty
\* list of declared fields is 0.0.
C8_VacioEsCero ==
    (/\ pc = "returned"
     /\ call.fn = "calcular_completitud"
     /\ call.data = EmptyDict
     /\ call.campos_esperados # <<>>)
    => ret = PyFloat(0)

\* C8, amended: against a non-empty list of declared fields,
\* calcular_completitud is 0.0 for a record that has keys but no value for
\* any declared field, and null for an empty record.
C8_SinValoresEsCero ==
    (/\ pc = "returned"
     /\ call.fn = "calcular_completitud"
     /\ call.campos_esperados # <<>>
     /\ SinValores(call.data, call.campos_esperados))
    => ret = (IF Truthy(call.data) THEN PyFloat(0) ELSE None)

\* A record with keys and only blank declared fields
C8_Witness ==
    /\ pc = "returned"
    /\ call.fn = "calcular_completitud"
    /\ Truthy(call.data)
    /\ Len(call.campos_esperados) = MaxCampos
    /\ \E i \in 1..Len(call.campos_esperados) :
         Get(call.data, call.campos_esperados[i]) = Str(<<" ">>)
    /\ ret = PyFloat(0)

\* C9 as stated: giving a value to a declared field that was empty never
\* lowers calcular_completitud, and raises it whenever it was below 100.
C9_Monotona ==
    (pc = "returned" /\ call.fn = "completar" /\ call.antes # None) =>
        /\ ret.tenths >= call.antes.tenths
        /\ call.antes.tenths < Porcentaje * 10 => ret.tenths > call.antes.tenths

\* C9, amended: giving a value to a declared field that was empty never
\* lowers calcular_completitud, and raises it whenever it was below 100 and
\* the list has at most 1000 declared fields.
C9_MonotonaHastaMil ==
    (pc = "returned" /\ call.fn = "completar" /\ call.antes # None) =>
        /\ ret # None
        /\ ret.tenths >= call.antes.tenths
        /\ (/\ call.antes.tenths < Porcentaje * 10
            /\ Len(call.campos_esperados) <= Porcentaje * 10)
           => ret.tenths > call.antes.tenths

\* One field more of a list of 1000 is one tenth of a percent more.
C9_Witness ==
    /\ pc = "returned"
    /\ call.fn = "completar"
    /\ Len(call.campos_esperados) = Porcentaje * 10
    /\ call.antes # None
    /\ ret.tenths = call.antes.tenths + 1

\* C10: normalize_date and normalize_date_es both turn a date written
\* day-MONTHABBR-year, in the Spanish long form or as day/month/year into
\* YYYY-MM-DD with the same day, month and year.
C10_FechasRegionales ==
    (pc = "returned" /\ call.fn \in {"normalize_date", "normalize_date_es"}) =>
        ret = Str(FmtISO(call.fecha[3], call.fecha[2], call.fecha[1]))

\* Text of the form YYYY-MM-DD
EsISO(v) ==
    /\ v.t = "str"
    /\ Len(v.v) = 10
    /\ \A i \in 1..10 : IF i \in {5, 8} THEN v.v[i] = "-" ELSE v.v[i] \in AsciiDigit

\* C11: when normalize_date or normalize_date_es returns text of the form
\* YYYY-MM-DD, its month is in 1..12, its day in 1..31, and day, month and
\* year are those the input writes; an input that writes no date is not
\* turned into one.
C11_FechaValida ==
    (pc = "returned" /\ call.fn = "normalizar" /\ EsISO(ret)) =>
        /\ IntOf(SubSeq(ret.v, 6, 7)) \in 1..12
        /\ IntOf(SubSeq(ret.v, 9, 10)) \in 1..31
        /\ call.fecha # <<>>
        /\ ret = Str(FmtISO(call.fecha[3], call.fecha[2], call.fecha[1]))

\* C12: of a non-empty input in none of the supported formats,
\* normalize_date and normalize_date_es return the input as it is.
C12_SinFormatoIgual ==
    (pc = "returned" /\ call.fn = "normalizar" /\ call.fecha = <<>>) => ret = call.x

\* C13: normalize_date and normalize_date_es return text of the form
\* YYYY-MM-DD as it is, and so return what a normalization that gave such
\* text gave.
C13_Idempotente ==
    /\ (pc = "returned" /\ call.fn = "normalizar" /\ EsISO(call.x)) => ret = call.x
    /\ (pc = "returned" /\ call.fn = "renormalizar" /\ EsISO(call.antes)) => ret = call.antes

\* A date in a regional format, normalized by one normalizer and then by the
\* other
C13_Witness ==
    /\ pc = "returned"
    /\ call.fn = "renormalizar"
    /\ call.con # call.luego
    /\ ~EsISO(call.x)
    /\ EsISO(call.antes)
    /\ ret = call.antes

\* C14: only_digits returns null or a non-empty string of the characters 0-9
\* of its input, in their order; null exactly when the input is null or has
\* no digit.
C14_SoloDigitos ==
    (pc = "returned" /\ call.fn = "only_digits") =>
        LET ds == IF call.x = None THEN <<>> ELSE Filter(PyStr(call.x), AsciiDigit)
        IN ret = (IF ds = <<>> THEN None ELSE Str(ds))

\* The name of the item matches no kind.
Desconocido(it) == ~Truthy(guess_doc_id_by_filename(it.original_name))

\* Row i of the table holds no value.
SinValor(df, i) == "Valor" \notin DOMAIN df[i] \/ df[i]["Valor"] \in {None, NaN}

\* C15: the items whose name matches no kind are listed, in their order,
\* under UNKNOWN in the uploads_resumen run_pipeline returns; none of them is
\* ever the item a block opens; and the rows of a kind that only such items
\* could have fed hold no value.
C15_DesconocidosAparte ==
    /\ loc # None => ~Desconocido(loc.it)
    /\ pc = "done" =>
         /\ ret.uploads_resumen["UNKNOWN"] = NombresDe(SelectSeq(items, Desconocido))
         /\ \A i \in 1..Len(ret.df_master) :
              buckets[MASTER_ROWS[i]["doc_id"]] = <<>> => SinValor(ret.df_master, i)

\* A run over an item of no kind and a tax registration, whose table has
\* values
C15_Witness ==
    /\ pc = "done"
    /\ Len(ret.uploads_resumen["UNKNOWN"]) >= 1
    /\ rut_data # None
    /\ \E i \in 1..Len(ret.df_master) : ~SinValor(ret.df_master, i)

\* The declared fields of kind k
Declarados(k) ==
    {campos_esperados_por_doc(k)[i] : i \in 1..Len(campos_esperados_por_doc(k))}

\* C16: no record run_pipeline returns has a key that is no declared field
\* of its kind in MASTER_ROWS.
C16_SoloDeclarados ==
    pc = "done" =>
        \A k \in {"DOC14", "DOC12", "DOC16"} :
            RegistroDe(k) # None => DOMAIN RegistroDe(k).v \subseteq Declarados(k)

\* C17: every record run_pipeline returns has every declared field of its
\* kind as a key.
C17_TodosDeclarados ==
    pc = "done" =>
        \A k \in {"DOC14", "DOC12", "DOC16"} :
            RegistroDe(k) # None => Declarados(k) \subseteq DOMAIN RegistroDe(k).v

\* The block of the tax registration returned a record.
RutDevuelto == pc = "returned" /\ call.fn = "BloqueDOC14" /\ ret.t = "ok"

\* rut_texto as lines 881-883 make it of the file of the call
TextoDelRut == RutTexto(limpiar_texto_para_llm(Strip(call.pdf.texto)))

\* The pattern of field 26 finds no number in the text of the call.
SinPatron == validar_numero_identificacion(TextoDelRut, Str(Digs(IdMin))) = None

\* The focused OCR of the file of the call reads no number.
SinOcr == ~Truthy(ocr_numero_identificacion_desde_campo26(call.pdf))

\* The identity number in the answer of the model, None when it has none
RespuestaId(resp) ==
    IF resp.error \/ resp.content = None THEN None
    ELSE IF ~resp.content.valido THEN None
    ELSE IF resp.content.v.t # "dict" THEN None
    ELSE Get(resp.content.v, "numero_identificacion")

C20_QuedaLaRespuesta ==
    (/\ RutDevuelto
     /\ Truthy(RespuestaId(call.resp))
     /\ SinOcr
     /\ SinPatron
     /\ extraer_numero_identificacion_regla(TextoDelRut) = None)
    => /\ Get(ret.data, "numero_identificacion")
            \in {RespuestaId(call.resp), only_digits(RespuestaId(call.resp))}
       /\ Get(ret.data, "_fuente_numero_identificacion") = FuenteIA

\* C19: the log only grows at its end: agregar_log, each validator and the
\* three checks of run_pipeline leave the entries there were, in place, and
\* add theirs after them, in the order of the checks: empty cédula, date of
\* the certificate, cross check.
C19_SoloAgrega ==
    (/\ pc = "returned"
     /\ call.fn \in {"agregar_log", "validar_rut_vs_cedula", "validar_cedula_vacia",
                     "validar_fecha_certificacion_bancaria", "Validaciones"})
    => /\ Len(logs) >= Len(call.logs)
       /\ SubSeq(logs, 1, Len(call.logs)) = call.logs
       /\ call.fn = "agregar_log" =>
            logs = call.logs \o <<[documento |-> call.documento, tipo |-> call.tipo,
                                   mensaje |-> call.mensaje]>>
       /\ call.fn = "Validaciones" =>
            logs = call.logs \o ValidarCedula(call.cc_data, <<>>)
                     \o ValidarFecha(call.doc16_data, <<>>, call.hoy)
                     \o ValidarCruce(call.rut_data, call.cc_data, <<>>)

\* The three checks each added an entry after the one there was
C19_Witness ==
    /\ pc = "returned"
    /\ call.fn = "Validaciones"
    /\ call.logs # <<>>
    /\ Len(logs) = Len(call.logs) + 3
    /\ logs[Len(call.logs) + 1].documento = "CEDULA"
    /\ logs[Len(call.logs) + 2].documento = "CERTIFICACION_BANCARIA"

\* The identity number the model answered in the call, suspicious or not
ModeloSospechoso == numero_id_es_sospechoso(RespuestaId(call.resp))

\* C21: in a returned tax-registration record the answer of the model stays
\* (as it is, or its digits) when it is not suspicious, whatever the text
\* holds; and when it is suspicious and the focused OCR reads a number, the
\* final number is that reading, tagged as such, the pattern of the text
\* being used only when the OCR reads none.
C21_CadenaEnOrden ==
    RutDevuelto =>
        /\ ~ModeloSospechoso =>
             Get(ret.data, "numero_identificacion")
                 \in {RespuestaId(call.resp), only_digits(RespuestaId(call.resp))}
        /\ (ModeloSospechoso /\ ~SinOcr) =>
             /\ Get(ret.data, "numero_identificacion")
                  = ocr_numero_identificacion_desde_campo26(call.pdf)
             /\ Get(ret.data, "_fuente_numero_identificacion") = FuenteOcr

\* The text v is in the text texto, letter case apart.
EstaEn(v, texto) == Contains(Upper(v), Upper(texto))

\* The digits ds are those of some stretch of the text texto, in its order.
DigitosDeTramo(ds, texto) ==
    \E i \in 1..Len(texto), j \in 1..Len(texto) : SubNoDigits(SubSeq(texto, i, j)) = ds

\* C22: what a rule of the text returns, when it is not None, is in the
\* text it was given: its digits are those of a stretch of the text for the
\* identity number and the account number, and the value itself (letter
\* case apart) is in the text for the NIT, the account status and the name
\* of the bank.
C22_NadaInventado ==
    (pc = "returned" /\ call.fn = "ReglaDeCampo" /\ ret # None) =>
        IF call.campo \in {"numero_identificacion", "numero_cuenta"}
        THEN DigitosDeTramo(ret.v, call.texto)
        ELSE EstaEn(ret.v, call.texto)

\* C23: the three checks of run_pipeline leave their entries in the order
\* agreement of the identity numbers, then empty number of the cédula, then
\* date of the bank certificate: the log returned is the log there was,
\* followed by the entries of the first, of the second and of the third.
C23_OrdenDocumentado ==
    (pc = "returned" /\ call.fn = "Validaciones") =>
        logs = call.logs \o ValidarCruce(call.rut_data, call.cc_data, <<>>)
                 \o ValidarCedula(call.cc_data, <<>>)
                 \o ValidarFecha(call.doc16_data, <<>>, call.hoy)

\* The marks of each kind, in the order the kinds are tried
Marcas ==
    <<[kind |-> "DOC14", marcas |-> {<<"R", "U", "T">>, <<"D", "O", "C", "1", "4">>}],
      [kind |-> "DOC12",
       marcas |-> {<<"C", "E", "D">>, <<"D", "O", "C", "1", "2">>, <<"D", "O", "C", "U">>}],
      [kind |-> "DOC16",
       marcas |-> {<<"C", "E", "R", "T", "I", "F", "I", "C", "A", "C", "I", "O", "N">>,
                   <<"B", "A", "N", "C", "A", "R", "I", "A">>, <<"D", "O", "C", "1", "6">>}]>>

\* The upper-cased name f has a mark of the j-th kind.
TieneMarca(j, f) == \E m \in Marcas[j].marcas : Contains(m, f)

\* The kind of an upper-cased name: the first kind it has a mark of, or
\* UNKNOWN
KindDeMayus(f) ==
    IF TieneMarca(1, f) THEN Marcas[1].kind
    ELSE IF TieneMarca(2, f) THEN Marcas[2].kind
    ELSE IF TieneMarca(3, f) THEN Marcas[3].kind
    ELSE "UNKNOWN"

\* The kind of a name, letter case apart
KindDe(nombre) == KindDeMayus(Upper(nombre))

\* The items of the list its whose name is of kind k, in their order
RECURSIVE DeKind(_, _)
DeKind(its, k) ==
    IF its = <<>> THEN <<>>
    ELSE (IF KindDe(Head(its).original_name) = k THEN <<Head(its)>> ELSE <<>>)
         \o DeKind(Tail(its), k)

\* The sum of the sizes of the buckets
Tamanos(b) == Len(b["DOC14"]) + Len(b["DOC12"]) + Len(b["DOC16"]) + Len(b["UNKNOWN"])

\* C24: after the classification each bucket holds, in the order of the
\* input, the items whose name (letter case apart) has a mark of its kind
\* and of no kind tried before it (tax registration, then national ID, then
\* bank certification), UNKNOWN holding those with no mark; every item is
\* in one bucket only and the sizes of the buckets add up to the number of
\* items.
C24_UnBucketPorItem ==
    (pc = "returned" /\ call.fn = "Clasifica") =>
        /\ \A k \in Kinds : buckets[k] = DeKind(items, k)
        /\ Tamanos(buckets) = Len(items)
        /\ \A i \in 1..Len(items) :
             \E k \in Kinds :
                /\ \E j \in 1..Len(buckets[k]) : buckets[k][j] = items[i]
                /\ \A h \in Kinds \ {k} :
                     \A j \in 1..Len(buckets[h]) : buckets[h][j] # items[i]

\* Three items in one bucket, in their order: one with the marks of the tax
\* registration and of the national ID, one with the mark of the tax
\* registration after that of the bank certification, and a plain one
C24_Witness ==
    /\ pc = "returned"
    /\ call.fn = "Clasifica"
    /\ Len(items) = MaxItems
    /\ buckets["DOC14"] = items
    /\ TieneMarca(2, Upper(items[1].original_name))
    /\ TieneMarca(3, Upper(items[2].original_name))
    /\ items[3].original_name = NombreRut

\* The value of the doc_tipo row of kind k in the table df
TipoEnTabla(df, k) ==
    df[CHOOSE i \in 1..Len(MASTER_ROWS) :
           /\ MASTER_ROWS[i]["doc_id"] = k
           /\ MASTER_ROWS[i]["Nombre de la Variable"] = "doc_tipo"]["Valor"]

\* C25: in the table run_pipeline returns, the doc_tipo row of the cédula
\* holds its fixed text whenever there is a record of the cédula, and the
\* doc_tipo row of the bank certificate holds its fixed text whenever there
\* is a record of the certificate, whatever the record holds for doc_tipo
\* and for its other keys.
C25_TipoFijo ==
    pc = "done" =>
        /\ cc_data # None => TipoEnTabla(ret.df_master, "DOC12") = DocTipoCedula
        /\ doc16_data # None => TipoEnTabla(ret.df_master, "DOC16") = DocTipoDoc16

\* A run where the model gave another doc_tipo for the cédula and none for
\* the certificate
C25_Witness ==
    /\ pc = "done"
    /\ cc_data # None
    /\ doc16_data # None
    /\ Get(cc_data, "doc_tipo") = Str(<<"x">>)
    /\ Get(doc16_data, "doc_tipo") = None
    /\ TipoEnTabla(ret.df_master, "DOC12") = DocTipoCedula
    /\ TipoEnTabla(ret.df_master, "DOC16") = DocTipoDoc16

\* C26: in a returned tax-registration record the tag is ia_no_validado
\* exactly when the final numero_identificacion is null; a final number
\* that is not null is the reading of the focused OCR, tagged ocr_campo26,
\* or the number the pattern of field 26 matches in the text, tagged
\* validado_campo26: the number of the model is never the one emitted.
C26_SoloLoValidado ==
    RutDevuelto =>
        /\ Get(ret.data, "_fuente_numero_identificacion") = FuenteIA
             <=> Get(ret.data, "numero_identificacion") = None
        /\ Get(ret.data, "numero_identificacion") # None =>
             \/ /\ Get(ret.data, "_fuente_numero_identificacion") = FuenteOcr
                /\ Get(ret.data, "numero_identificacion")
                     = ocr_numero_identificacion_desde_campo26(call.pdf)
             \/ /\ Get(ret.data, "_fuente_numero_identificacion") = FuenteValidado
                /\ ~SinPatron
                /\ Get(ret.data, "numero_identificacion")
                     = Grupo1(TextoDelRut, Search(ReCampo26, TextoDelRut))

\* The model gave a number of 8 to 10 digits, the rule of the text found
\* none, and the number emitted is the other one the pattern matches
C26_Witness ==
    /\ RutDevuelto
    /\ ~ModeloSospechoso
    /\ extraer_numero_identificacion_regla(TextoDelRut) = None
    /\ Get(ret.data, "_fuente_numero_identificacion") = FuenteValidado
    /\ Get(ret.data, "numero_identificacion") # only_digits(RespuestaId(call.resp))

\* C27: the item a block opens is the first item of the input whose name is
\* of the kind of the block, and no other; a record of a kind is there only
\* if the input has an item of that kind; and uploads_resumen lists the
\* names of all the items of each kind, in the order of the input.
C27_SoloElPrimero ==
    /\ loc # None =>
         /\ DeKind(items, loc.doc) # <<>>
         /\ loc.it = DeKind(items, loc.doc)[1]
    /\ \A k \in {"DOC14", "DOC12", "DOC16"} :
         RegistroDe(k) # None => DeKind(items, k) # <<>>
    /\ pc = "done" =>
         \A k \in Kinds :
            ret.uploads_resumen[k]
                = [i \in 1..Len(DeKind(items, k)) |-> DeKind(items, k)[i].original_name]

\* The tax-registration block has run over an input with two tax
\* registrations after another item: it opened the second item of the
\* input and left a record
C27_Witness ==
    /\ pc = "doc12"
    /\ Len(buckets["DOC14"]) = 2
    /\ loc # None
    /\ loc.doc = "DOC14"
    /\ loc.it.path = 2
    /\ rut_data # None

\* The entry e is one validar_rut_vs_cedula writes: the agreement or
\* disagreement of the numbers, or the warning of a missing side.
DelCruce(e) ==
    \/ e.documento = "VALIDACION_CRUZADA"
    \/ /\ e.documento = "RUT"
       /\ e.mensaje = <<"El RUT no tiene número de identificación extraído.">>
    \/ /\ e.documento = "CEDULA"
       /\ e.mensaje = <<"La cédula no tiene número de identificación extraído.">>

\* C28: when the input of a finished run has no tax registration or no
\* national ID, the returned log has no entry of the agreement check,
\* neither under VALIDACION_CRUZADA nor as the warning of a missing side,
\* and the count of warnings of VALIDACION_CRUZADA is 0; an entry of that
\* check is there only when both records are.
C28_CruceSoloConAmbos ==
    pc = "done" =>
        /\ (buckets["DOC14"] = <<>> \/ buckets["DOC12"] = <<>>) =>
             /\ \A i \in 1..Len(ret.logs) : ~DelCruce(ret.logs[i])
             /\ ret.metricas.warnings_por_documento["VALIDACION_CRUZADA"] = 0
        /\ (\E i \in 1..Len(ret.logs) : DelCruce(ret.logs[i])) =>
             rut_data # None /\ cc_data # None

\* A run without tax registration whose national ID has no number: the
\* log holds the warning of the empty cédula and nothing of the agreement
\* check
C28_Witness ==
    /\ pc = "done"
    /\ buckets["DOC14"] = <<>>
    /\ cc_data # None
    /\ ~Truthy(Get(cc_data, "doc_numero"))
    /\ \E i \in 1..Len(ret.logs) :
          ret.logs[i].documento = "CEDULA" /\ ret.logs[i].tipo = "WARNING"
    /\ ret.metricas.warnings_por_documento["CEDULA"] = 1

\* The value of the model for a field, as normalizar_campos_doc16
\* normalizes it before the rules
Normalizado(campo, v) ==
    CASE campo = "numero_cuenta" -> only_digits(v)
      [] campo = "banco_nombre" -> normalize_text(v)
      [] OTHER -> v

\* What the field should hold after the rules: the normalized value mv of
\* the model when it is not empty, else the value rv of the rule when the
\* rule gives one
ConRelleno(mv, rv) == IF Truthy(mv) THEN mv ELSE IF Truthy(rv) THEN rv ELSE mv

C30_ResultadosTrasProcess ==
    /\ respuesta.ruta \in {"results", "export"} =>
          IF completados[respuesta.case] = Ausente
          THEN respuesta.status = 404
          ELSE respuesta.status = 200 /\ respuesta.cuerpo = completados[respuesta.case]
    /\ (respuesta.ruta = "process" /\ ~uploads_json[respuesta.case]) =>
          respuesta.status = 404
    /\ \A c \in Casos :
          ~uploads_json[c] => result_json[c] = Ausente /\ output_xlsx[c] = Ausente

====
